---------------------------- MODULE Spec2Model ----------------------------
(***************************************************************************)
(* A model of the qp storage engine: the disk manager (disk.rs), the       *)
(* buffer pool with its clock eviction (buffer.rs), the slotted page       *)
(* (slotted.rs), the B+-tree nodes (btree/leaf.rs, btree/branch.rs,        *)
(* btree/node.rs) and the tree access paths with their page latches        *)
(* (btree.rs, latch.rs).                                                   *)
(*                                                                         *)
(* Pages are byte sequences, laid out as the code lays them out; a page    *)
(* is PageSize bytes instead of 4096 so that a leaf takes two records of   *)
(* the largest value and a branch takes MaxPairs pairs.  Offsets given to  *)
(* the byte helpers are zero-based, as in the source.                      *)
(***************************************************************************)
EXTENDS Integers, Sequences, FiniteSets, TLC

\* ------------------------------------------------------------------------
\* Sizes

\* disk.rs: PAGE_SIZE, scaled down.
PageSize == 104

\* btree.rs: Key = [u8; 8].
KeySize == 8

\* slotted.rs: size_of::<Pointer>() (two u16).
PointerSize == 4

\* slotted.rs: Header::SIZE.
SlottedHeaderSize == 4

\* btree/leaf.rs: Header::SIZE (prev and next page id).
LeafHeaderSize == 16

\* btree/branch.rs: Header::SIZE.
BranchHeaderSize == 4

\* btree/node.rs: Header::SIZE.
NodeHeaderSize == 4

\* btree/branch.rs: Pair::SIZE.
PairSize == KeySize + 8

\* btree/node.rs: NodeType.
NodeTypeLeaf == 1

NodeTypeBranch == 2

\* disk.rs: PageId::INVALID_PAGE_ID is u64::MAX; the model writes it -1 and
\* encodes it as eight 0xFF bytes.
INVALID_PAGE_ID == 0 - 1

\* ------------------------------------------------------------------------
\* Bytes

\* (SubSeq makes the value a plain tuple.)
Fill(n, b) == SubSeq([i \in 1..n |-> b], 1, n)

ZeroPage == Fill(PageSize, 0)

\* u16::from_be_bytes(s[off..off+2])
U16(s, off) == s[off + 1] * 256 + s[off + 2]

\* s[off..off+2].copy_from_slice(&v.to_be_bytes())
PutU16(s, off, v) ==
  SubSeq(s, 1, off) \o <<v \div 256, v % 256>> \o SubSeq(s, off + 3, Len(s))

\* s[off..off+len]
Slice(s, off, len) == SubSeq(s, off + 1, off + len)

\* s[off..off+Len(src)].copy_from_slice(src)
PutSlice(s, off, src) ==
  SubSeq(s, 1, off) \o src \o SubSeq(s, off + Len(src) + 1, Len(s))

\* slice::copy_within(from..to, dest); it panics when from > to, when
\* to > len and when the destination does not fit.
CopyWithinPanics(s, from, to, dest) ==
  from > to \/ to > Len(s) \/ dest + (to - from) > Len(s)

CopyWithin(s, from, to, dest) == PutSlice(s, dest, Slice(s, from, to - from))

\* PageId <-> [u8; 8] (disk.rs From impls): big-endian u64.  Page ids of the
\* model stay below 256, so only the last byte is non-zero.
PageIdBytes(id) ==
  IF id = INVALID_PAGE_ID THEN Fill(8, 255) ELSE Fill(7, 0) \o <<id>>

RECURSIVE BeValue(_)
BeValue(bytes) ==
  IF bytes = <<>> THEN 0
  ELSE BeValue(SubSeq(bytes, 1, Len(bytes) - 1)) * 256 + bytes[Len(bytes)]

PageIdOf(bytes) ==
  IF bytes = Fill(8, 255) THEN INVALID_PAGE_ID ELSE BeValue(SubSeq(bytes, 5, 8))

\* u64::to_be_bytes of a small key number, as the tests build keys.
KeyOf(k) == Fill(7, 0) \o <<k>>

\* [u8; 8] comparison: lexicographic.  -1, 0, 1 for Less, Equal, Greater.
RECURSIVE CmpFrom(_, _, _)
CmpFrom(a, b, i) ==
  IF i > Len(a) THEN 0
  ELSE IF a[i] < b[i] THEN 0 - 1
  ELSE IF a[i] > b[i] THEN 1
  ELSE CmpFrom(a, b, i + 1)

KeyCmp(a, b) == CmpFrom(a, b, 1)

\* ------------------------------------------------------------------------
\* slotted.rs.  A slotted body `s` is Header (num_slots, free_space_offset)
\* followed by the payload; pointers and record offsets are relative to the
\* payload.

SlPayloadLen(s) == Len(s) - SlottedHeaderSize

SlNumSlots(s) == U16(s, 0)

SlFreeSpaceOffset(s) == U16(s, 2)

\* Slotted::free_space
SlFreeSpace(s) == SlFreeSpaceOffset(s) - SlNumSlots(s) * PointerSize

\* Pointer::offset(index), as an offset into `s`
SlPointerAt(index) == SlottedHeaderSize + index * PointerSize

\* Slotted::pointer
SlPointer(s, index) ==
  [offset |-> U16(s, SlPointerAt(index)), len |-> U16(s, SlPointerAt(index) + 2)]

\* Slotted::set_pointer
SlSetPointer(s, index, offset, len) ==
  PutU16(PutU16(s, SlPointerAt(index), offset), SlPointerAt(index) + 2, len)

\* Slotted::initialize
SlInitialize(s) == PutU16(PutU16(s, 0, 0), 2, SlPayloadLen(s))

\* Index<u16>: the record bytes of slot `index`
SlRecord(s, index) ==
  Slice(s, SlottedHeaderSize + SlPointer(s, index).offset, SlPointer(s, index).len)

\* IndexMut<u16> followed by copy_from_slice
SlSetRecord(s, index, bytes) ==
  PutSlice(s, SlottedHeaderSize + SlPointer(s, index).offset, bytes)

\* Slotted::allocate: the result (false: no room) and the body afterwards.
SlAllocateOk(s, index, element_len) ==
  ~(SlFreeSpace(s) < element_len + PointerSize)

\* An allocate that extends the pointers before it looks at the free space.
SlAllocateEarly(s, index, element_len) ==
  IF ~SlAllocateOk(s, index, element_len) THEN PutU16(s, 0, SlNumSlots(s) + 1)
  ELSE
    LET num_slots == SlNumSlots(s)
        element_offset == SlFreeSpaceOffset(s) - element_len
        s1 == PutU16(PutU16(s, 0, num_slots + 1), 2, element_offset)
        s2 == CopyWithin(s1, SlPointerAt(index), SlPointerAt(num_slots),
                         SlPointerAt(index + 1))
    IN SlSetPointer(s2, index, element_offset, element_len)

SlAllocate(s, index, element_len) ==
  IF ~SlAllocateOk(s, index, element_len) THEN s
  ELSE
    LET num_slots == SlNumSlots(s)
        element_offset == SlFreeSpaceOffset(s) - element_len
        s1 == PutU16(PutU16(s, 0, num_slots + 1), 2, element_offset)
        s2 == CopyWithin(s1, SlPointerAt(index), SlPointerAt(num_slots),
                         SlPointerAt(index + 1))
    IN SlSetPointer(s2, index, element_offset, element_len)

\* Slotted::realloc
SlReallocOk(s, index, new_element_len) ==
  LET diff == new_element_len - SlPointer(s, index).len
  IN ~(diff > 0 /\ SlFreeSpace(s) < diff)

RECURSIVE SlShiftPointers(_, _, _, _)
SlShiftPointers(s, i, org_element_offset, diff) ==
  IF i >= SlNumSlots(s) THEN s
  ELSE
    LET p == SlPointer(s, i)
        s1 == IF p.offset <= org_element_offset
              THEN SlSetPointer(s, i, p.offset - diff, p.len)
              ELSE s
    IN SlShiftPointers(s1, i + 1, org_element_offset, diff)

SlRealloc(s, index, new_element_len) ==
  LET Shifted(org, org_free_space_offset, diff, new_free_space_offset) ==
        SlShiftPointers(
          CopyWithin(PutU16(s, 2, new_free_space_offset),
                     SlottedHeaderSize + org_free_space_offset,
                     SlottedHeaderSize + org.offset,
                     SlottedHeaderSize + new_free_space_offset),
          0, org.offset, diff)
      SetLen(s3, new_free_space_offset) ==
        SlSetPointer(s3, index,
                     IF new_element_len = 0 THEN new_free_space_offset
                     ELSE SlPointer(s3, index).offset,
                     new_element_len)
      Move(org, org_free_space_offset, diff) ==
        IF diff = 0 \/ ~SlReallocOk(s, index, new_element_len) THEN s
        ELSE SetLen(Shifted(org, org_free_space_offset, diff,
                            org_free_space_offset - diff),
                    org_free_space_offset - diff)
      From(org) == Move(org, SlFreeSpaceOffset(s), new_element_len - org.len)
  IN From(SlPointer(s, index))

\* Slotted::delete.  The pointers [index, num_slots) are copied one place
\* to the right, as the source writes it, before num_slots is decremented.
SlDelete(s, index) ==
  LET Close(s1, num_slots) ==
        PutU16(CopyWithin(s1, SlPointerAt(index), SlPointerAt(num_slots),
                          SlPointerAt(index + 1)),
               0, num_slots - 1)
      After(s1) == Close(s1, SlNumSlots(s1))
  IN After(SlRealloc(s, index, 0))

\* A reverse that leaves the pointers as they are.
SlReverseNot(s) == s

\* Slotted::reverse
RECURSIVE SlReverseFrom(_, _, _)
SlReverseFrom(s, left, right) ==
  IF ~(left < right) THEN s
  ELSE
    LET l == SlPointer(s, left)
        r == SlPointer(s, right)
    IN SlReverseFrom(SlSetPointer(SlSetPointer(s, left, r.offset, r.len),
                                  right, l.offset, l.len),
                     left + 1, right - 1)

SlReverse(s) ==
  IF SlNumSlots(s) = 0 THEN s ELSE SlReverseFrom(s, 0, SlNumSlots(s) - 1)

\* ------------------------------------------------------------------------
\* btree/leaf.rs.  A leaf body `d` is Header (prev_page_id, next_page_id)
\* followed by a slotted body of records key || value.

LeafSl(d) == SubSeq(d, LeafHeaderSize + 1, Len(d))

LeafWithSl(d, s) == SubSeq(d, 1, LeafHeaderSize) \o s

\* Leaf::prev_page_id / next_page_id (None is INVALID_PAGE_ID)
LeafPrev(d) == PageIdOf(Slice(d, 0, 8))

LeafNext(d) == PageIdOf(Slice(d, 8, 8))

\* Leaf::set_prev_page_id / set_next_page_id
LeafSetPrev(d, id) == PutSlice(d, 0, PageIdBytes(id))

LeafSetNext(d, id) == PutSlice(d, 8, PageIdBytes(id))

\* Leaf::initialize
LeafInitialize(d) ==
  LeafWithSl(LeafSetNext(LeafSetPrev(d, INVALID_PAGE_ID), INVALID_PAGE_ID),
             SlInitialize(LeafSl(d)))

\* Leaf::num_records
LeafNumRecords(d) == SlNumSlots(LeafSl(d))

\* Leaf::record(index): the record bytes, its key and its value
LeafRecord(d, index) == SlRecord(LeafSl(d), index)

RecordKey(rec) == SubSeq(rec, 1, KeySize)

RecordValue(rec) == SubSeq(rec, KeySize + 1, Len(rec))

LeafKey(d, index) == RecordKey(LeafRecord(d, index))

\* Leaf::max_value_size
LeafMaxValueSize(d) ==
  (SlPayloadLen(LeafSl(d)) \div 2) - PointerSize - KeySize

\* Leaf::find: [ok |-> found, index |-> slot or insert position]
RECURSIVE LeafFindBase(_, _, _, _)
LeafFindBase(d, key, base, size) ==
  IF ~(size > 1) THEN base
  ELSE
    LET half == size \div 2
        mid == base + half
    IN LeafFindBase(d, key,
                    IF KeyCmp(LeafKey(d, mid), key) > 0 THEN base ELSE mid,
                    size - half)

\* A find that returns the slot it stopped at when the key is absent.
LeafFindAtBase(d, key) ==
  LET Result(base, cmp) == [ok |-> cmp = 0, index |-> base]
      At(base) == Result(base, KeyCmp(LeafKey(d, base), key))
  IN IF LeafNumRecords(d) = 0 THEN [ok |-> FALSE, index |-> 0]
     ELSE At(LeafFindBase(d, key, 0, LeafNumRecords(d)))

LeafFind(d, key) ==
  LET Result(base, cmp) ==
        IF cmp = 0 THEN [ok |-> TRUE, index |-> base]
        ELSE [ok |-> FALSE, index |-> base + (IF cmp < 0 THEN 1 ELSE 0)]
      At(base) == Result(base, KeyCmp(LeafKey(d, base), key))
  IN IF LeafNumRecords(d) = 0 THEN [ok |-> FALSE, index |-> 0]
     ELSE At(LeafFindBase(d, key, 0, LeafNumRecords(d)))

\* Leaf::get: [found, value]
LeafGet(d, key) ==
  LET Of(f) ==
        IF f.ok THEN [found |-> TRUE, value |-> RecordValue(LeafRecord(d, f.index))]
        ELSE [found |-> FALSE, value |-> <<>>]
  IN Of(LeafFind(d, key))

\* The allocate or realloc of Leaf::put at the place `f` found: its result,
\* and the slotted body afterwards
LeafMakeRoomOk(s, f, len) ==
  IF f.ok THEN SlReallocOk(s, f.index, len) ELSE SlAllocateOk(s, f.index, len)

LeafMakeRoom(s, f, len) ==
  IF f.ok THEN SlRealloc(s, f.index, len) ELSE SlAllocate(s, f.index, len)

\* Leaf::put: its result
LeafPutOk(d, key, value) ==
  LeafMakeRoomOk(LeafSl(d), LeafFind(d, key), KeySize + Len(value))

\* Leaf::put: the leaf body afterwards
LeafPut(d, key, value) ==
  LET Write(f, ok, s1) ==
        IF ~ok THEN LeafWithSl(d, s1)
        ELSE LeafWithSl(d, SlSetRecord(s1, f.index, key \o value))
      At(f) == Write(f, LeafMakeRoomOk(LeafSl(d), f, KeySize + Len(value)),
                     LeafMakeRoom(LeafSl(d), f, KeySize + Len(value)))
  IN At(LeafFind(d, key))

\* Leaf::allocate_last followed by the copy (push_record, push_key_value);
\* the assert in allocate_last fails when there is no room.
LeafPushPanics(d, bytes) ==
  ~SlAllocateOk(LeafSl(d), LeafNumRecords(d), Len(bytes))

LeafPush(d, bytes) ==
  LET next == LeafNumRecords(d)
  IN LeafWithSl(d, SlSetRecord(SlAllocate(LeafSl(d), next, Len(bytes)), next, bytes))

LeafDeleteLast(d) == LeafWithSl(d, SlDelete(LeafSl(d), LeafNumRecords(d) - 1))

LeafReverse(d) == LeafWithSl(d, SlReverse(LeafSl(d)))

\* Leaf::split_put, lines 255-267: after the new record went to new_leaf,
\* keep moving the last record of self.
RECURSIVE SplitPutRest(_, _)
SplitPutRest(self, new_leaf) ==
  IF SlFreeSpace(LeafSl(self)) > SlFreeSpace(LeafSl(new_leaf)) \/ LeafNumRecords(self) <= 1
  THEN [panic |-> FALSE, self |-> self, new_leaf |-> new_leaf]
  ELSE
    LET record == LeafRecord(self, LeafNumRecords(self) - 1)
    IN IF LeafPushPanics(new_leaf, record)
       THEN [panic |-> TRUE, self |-> self, new_leaf |-> new_leaf]
       ELSE SplitPutRest(LeafDeleteLast(self), LeafPush(new_leaf, record))

\* Leaf::split_put: [panic, self, new_leaf, key]
RECURSIVE LeafSplitPut(_, _, _, _)
LeafSplitPut(self, new_leaf, new_key, new_value) ==
  LET \* lines 273-276
      Last(nl) ==
        IF ~LeafPutOk(self, new_key, new_value) \/ LeafNumRecords(nl) = 0
        THEN [panic |-> TRUE, self |-> self, new_leaf |-> nl, key |-> new_key]
        ELSE [panic |-> FALSE, self |-> LeafPut(self, new_key, new_value),
              new_leaf |-> nl, key |-> LeafKey(nl, 0)]
      Rest(r, nl) ==
        [panic |-> r.panic, self |-> r.self, new_leaf |-> nl, key |-> LeafKey(nl, 0)]
      RestOf(r) == Rest(r, LeafReverse(r.new_leaf))
      Move(record, cmp) ==
        IF cmp < 0
        THEN IF LeafPushPanics(new_leaf, record)
             THEN [panic |-> TRUE, self |-> self, new_leaf |-> new_leaf,
                   key |-> new_key]
             ELSE LeafSplitPut(LeafDeleteLast(self), LeafPush(new_leaf, record),
                               new_key, new_value)
        ELSE IF LeafPushPanics(new_leaf, new_key \o new_value)
             THEN [panic |-> TRUE, self |-> self, new_leaf |-> new_leaf,
                   key |-> new_key]
             ELSE RestOf(SplitPutRest(IF cmp = 0 THEN LeafDeleteLast(self) ELSE self,
                                      LeafPush(new_leaf, new_key \o new_value)))
      Step(record) == Move(record, KeyCmp(new_key, RecordKey(record)))
  IN IF SlFreeSpace(LeafSl(self)) > SlFreeSpace(LeafSl(new_leaf))
          \/ LeafNumRecords(self) <= 1
     THEN Last(LeafReverse(new_leaf))
     ELSE Step(LeafRecord(self, LeafNumRecords(self) - 1))

\* The records of a leaf body, in slot order (Slotted::iter)
LeafRecords(d) ==
  SubSeq([i \in 1..LeafNumRecords(d) |-> LeafRecord(d, i - 1)], 1, LeafNumRecords(d))

\* ------------------------------------------------------------------------
\* btree/branch.rs.  A branch body `b` is Header (num_pairs) followed by the
\* pair array; pair i is key || child.

BrPairAt(index) == BranchHeaderSize + index * PairSize

\* Branch::max_pairs
BrMaxPairs(b) == (Len(b) - BranchHeaderSize) \div PairSize

\* Branch::num_pairs
BrNumPairs(b) == U16(b, 0)

\* Pair::key / Pair::child of Branch::pair(index)
BrKey(b, index) == Slice(b, BrPairAt(index), KeySize)

BrChild(b, index) == PageIdOf(Slice(b, BrPairAt(index) + KeySize, 8))

\* Pair::set_key, Pair::set_child of Branch::pair_mut(index)
BrSetPair(b, index, key, child) ==
  PutSlice(b, BrPairAt(index), key \o PageIdBytes(child))

BrSetChild(b, index, child) ==
  PutSlice(b, BrPairAt(index) + KeySize, PageIdBytes(child))

\* Branch::find.  `num_pairs() - 1` underflows on an empty branch, and
\* pair(base) is read whatever num_pairs is.
BrFindPanics(b) == BrNumPairs(b) = 0 \/ BrMaxPairs(b) < 2

RECURSIVE BrFindBase(_, _, _, _)
BrFindBase(b, key, base, size) ==
  IF ~(size > 1) THEN base
  ELSE
    LET half == size \div 2
        mid == base + half
    IN BrFindBase(b, key,
                  IF KeyCmp(BrKey(b, mid), key) > 0 THEN base ELSE mid,
                  size - half)

BrFind(b, key) ==
  LET base == BrFindBase(b, key, 1, BrNumPairs(b) - 1)
      cmp == KeyCmp(BrKey(b, base), key)
  IN IF cmp = 0 THEN base ELSE base - (IF cmp > 0 THEN 1 ELSE 0)

\* Branch::initialize
BrInitialize(b, key, left_child, right_child) ==
  BrSetPair(BrSetChild(PutU16(b, 0, 2), 0, left_child), 1, key, right_child)

\* Branch::insert; copy_within and pair_mut panic past the body.
BrInsertPanics(b, index) ==
  \/ CopyWithinPanics(b, BrPairAt(index), BrPairAt(BrNumPairs(b)), BrPairAt(index + 1))
  \/ BrPairAt(index + 1) > Len(b)

\* An insert that writes the pair after the last one, whatever the index.
BrInsertLast(b, index, key, child) ==
  PutU16(BrSetPair(b, BrNumPairs(b), key, child), 0, BrNumPairs(b) + 1)

BrInsert(b, index, key, child) ==
  LET num_children == BrNumPairs(b)
      b1 == CopyWithin(b, BrPairAt(index), BrPairAt(num_children), BrPairAt(index + 1))
      b2 == BrSetPair(b1, index, key, child)
  IN PutU16(b2, 0, BrNumPairs(b2) + 1)

\* Branch::split: [self, new_branch, key]
BrSplit(b, new_branch) ==
  LET num_keys == BrNumPairs(b)
      mid == num_keys \div 2
      mid_key == BrKey(b, mid)
      src == Slice(b, BrPairAt(mid), (num_keys - mid) * PairSize)
      nb == PutU16(PutSlice(new_branch, BranchHeaderSize, src), 0, num_keys - mid)
  IN [self |-> PutU16(b, 0, mid - 1), new_branch |-> nb, key |-> mid_key]

\* ------------------------------------------------------------------------
\* btree/node.rs and the tree header page of btree.rs: whole pages.

\* Header::node_type; any other tag is unreachable!()
NodeType(page) == page[1]

NodeBody(page) == SubSeq(page, NodeHeaderSize + 1, Len(page))

NodeWithBody(page, body) == SubSeq(page, 1, NodeHeaderSize) \o body

\* NodePage::initialize_as_leaf / initialize_as_branch: set the tag
NodeSetType(page, type) == <<type>> \o SubSeq(page, 2, Len(page))

IsLeafPage(page) == NodeType(page) = NodeTypeLeaf

IsBranchPage(page) == NodeType(page) = NodeTypeBranch

\* BTreePage::root_page_id / set_root_page_id
RootPageId(page) == PageIdOf(Slice(page, 0, 8))

SetRootPageId(page, id) == PutSlice(page, 0, PageIdBytes(id))

\* ------------------------------------------------------------------------
\* Bounds of the model

\* Page ids are 0 .. MaxPages-1: create_page is not taken past it.
MaxPages == 12

\* Keys are KeyOf(1) .. KeyOf(NKeys).
NKeys == 7

\* Worker threads (main.rs spawns one per connection).
NWorkers == 2

\* main.rs: BufferPool::new(5).
PoolSize == 5

Workers == 1..NWorkers

NoWorker == 0

NoFrame == 0 - 1

\* ------------------------------------------------------------------------
\* State

VARIABLES
  disk,       \* DiskManager: [data_file: the pages of the file, next_page_id]
  pool,       \* BufferPool: [page_table, next_victim, buffers]
  pool_lock,  \* the worker holding the mutex BufferPoolManager.pool, or NoWorker
  disk_lock,  \* the worker holding the mutex BufferPoolManager.disk, or NoWorker
  held,       \* per worker: its Arc<RwLock<Buffer>> handles, oldest first
  pc,         \* per worker: where it is in its operation
  loc,        \* per worker: the locals of its operation
  last,       \* per worker: the outcome of its last finished operation
  stored,     \* ghost, per key number: the value of the last put that returned Ok
  snap,       \* ghost, per worker: the pages as its put found them
  written,    \* ghost, per page id: what was last written to the page through a write guard
  nops        \* ghost: operations started so far, by kind

vars == <<disk, pool, pool_lock, disk_lock, held, pc, loc, last, stored, snap, written, nops>>

\* ------------------------------------------------------------------------
\* disk.rs: DiskManager.  data_file[p + 1] is the page at offset
\* PAGE_SIZE * p; `fail` names an injected I/O failure.

\* DiskManager::new: next_page_id = file length / PAGE_SIZE
DiskNew(data_file) == [data_file |-> data_file, next_page_id |-> Len(data_file)]

\* DiskManager::read_page_data: read_exact fails past the end of the file
ReadPageOk(d, page_id) == page_id >= 0 /\ page_id < Len(d.data_file)

ReadPageData(d, page_id) == d.data_file[page_id + 1]

\* DiskManager::write_page_data: a write past the end extends the file
WritePageData(d, page_id, page) ==
  IF page_id < Len(d.data_file)
  THEN [d EXCEPT !.data_file = PutSlice(d.data_file, page_id, <<page>>)]
  ELSE [d EXCEPT !.data_file =
          d.data_file \o Fill(page_id - Len(d.data_file), ZeroPage) \o <<page>>]

\* DiskManager::allocate_page
AllocatePage(d) == [d EXCEPT !.next_page_id = @ + 1]

\* ------------------------------------------------------------------------
\* buffer.rs: BufferPool.  Frame BufferId(f) is buffers[f + 1]; page_table
\* is indexed by page id + 1 and holds the frame, or NoFrame for no entry.

\* Frame::default / Buffer::default
DefaultFrame ==
  [usage_count |-> 0, page_id |-> INVALID_PAGE_ID, page |-> ZeroPage, is_dirty |-> FALSE]

\* BufferPool::new
BufferPoolNew(pool_size) ==
  [page_table |-> Fill(MaxPages, NoFrame), next_victim |-> 0,
   buffers |-> Fill(pool_size, DefaultFrame)]

PtGet(page_table, page_id) ==
  IF page_id >= 0 /\ page_id < Len(page_table) THEN page_table[page_id + 1] ELSE NoFrame

PtRemove(page_table, page_id) ==
  IF page_id >= 0 /\ page_id < Len(page_table)
  THEN [page_table EXCEPT ![page_id + 1] = NoFrame] ELSE page_table

PtInsert(page_table, page_id, frame_id) == [page_table EXCEPT ![page_id + 1] = frame_id]

\* Arc::strong_count - 1 of every frame's buffer: the handles held outside
\* the pool.  A handle is [frame, mode, page_id, lvl].
RECURSIVE CountIn(_, _)
CountIn(handles, f) ==
  IF handles = <<>> THEN 0
  ELSE (IF handles[1].frame = f THEN 1 ELSE 0) + CountIn(Tail(handles), f)

RECURSIVE PinsFrom(_, _, _)
PinsFrom(h, f, w) ==
  IF w > Len(h) THEN 0 ELSE CountIn(h[w], f) + PinsFrom(h, f, w + 1)

PinCount(h, f) == PinsFrom(h, f, 1)

\* A sweep that lowers the usage_count of every frame it passes, pinned or
\* not (Arc::get_mut is not consulted).
RECURSIVE EvictLoopUnpinned(_, _, _, _, _)
EvictLoopUnpinned(buffers, next_victim, consecutive_used, h, fuel) ==
  IF fuel = 0
  THEN [victim |-> NoFrame, buffers |-> buffers, next_victim |-> next_victim,
        diverged |-> TRUE]
  ELSE IF buffers[next_victim + 1].usage_count = 0
  THEN [victim |-> next_victim, buffers |-> buffers, next_victim |-> next_victim,
        diverged |-> FALSE]
  ELSE EvictLoopUnpinned([buffers EXCEPT ![next_victim + 1].usage_count = @ - 1],
                         (next_victim + 1) % Len(buffers), 0, h, fuel - 1)

\* A sweep that does not start consecutive_used afresh when it lowers a
\* usage_count.
RECURSIVE EvictLoopNoReset(_, _, _, _, _)
EvictLoopNoReset(buffers, next_victim, consecutive_used, h, fuel) ==
  IF fuel = 0
  THEN [victim |-> NoFrame, buffers |-> buffers, next_victim |-> next_victim,
        diverged |-> TRUE]
  ELSE IF buffers[next_victim + 1].usage_count = 0
  THEN [victim |-> next_victim, buffers |-> buffers, next_victim |-> next_victim,
        diverged |-> FALSE]
  ELSE IF PinCount(h, next_victim) = 0
  THEN EvictLoopNoReset([buffers EXCEPT ![next_victim + 1].usage_count = @ - 1],
                        (next_victim + 1) % Len(buffers), consecutive_used, h, fuel - 1)
  ELSE IF consecutive_used + 1 >= Len(buffers)
  THEN [victim |-> NoFrame, buffers |-> buffers, next_victim |-> next_victim,
        diverged |-> FALSE]
  ELSE EvictLoopNoReset(buffers, (next_victim + 1) % Len(buffers),
                        consecutive_used + 1, h, fuel - 1)

\* The clock sweep of BufferPool::evict (lines 65-80).  `fuel` bounds the
\* number of turns of the loop; victim NoFrame is `return None`.
RECURSIVE EvictLoop(_, _, _, _, _)
EvictLoop(buffers, next_victim, consecutive_used, h, fuel) ==
  LET pool_size == Len(buffers)
      frame == buffers[next_victim + 1]
  IN
    IF fuel = 0
    THEN [victim |-> NoFrame, buffers |-> buffers, next_victim |-> next_victim,
          diverged |-> TRUE]
    ELSE IF frame.usage_count = 0
    THEN [victim |-> next_victim, buffers |-> buffers, next_victim |-> next_victim,
          diverged |-> FALSE]
    ELSE IF PinCount(h, next_victim) = 0
    THEN EvictLoop([buffers EXCEPT ![next_victim + 1].usage_count = @ - 1],
                   (next_victim + 1) % pool_size, 0, h, fuel - 1)
    ELSE IF consecutive_used + 1 >= pool_size
    THEN [victim |-> NoFrame, buffers |-> buffers, next_victim |-> next_victim,
          diverged |-> FALSE]
    ELSE EvictLoop(buffers, (next_victim + 1) % pool_size, consecutive_used + 1,
                   h, fuel - 1)

RECURSIVE SumUsage(_)
SumUsage(buffers) ==
  IF buffers = <<>> THEN 0 ELSE buffers[1].usage_count + SumUsage(Tail(buffers))

\* More turns than the loop can take: every turn ends the loop, lowers a
\* usage_count or passes a pinned frame.
EvictFuel(buffers) == (SumUsage(buffers) + 1) * (Len(buffers) + 1) + 1

\* BufferPool::evict: [victim, pool, diverged]
Evict(p, h) ==
  LET Of(r) ==
        IF r.victim = NoFrame
        THEN [victim |-> NoFrame, diverged |-> r.diverged,
              pool |-> [p EXCEPT !.buffers = r.buffers, !.next_victim = r.next_victim]]
        ELSE [victim |-> r.victim, diverged |-> FALSE,
              pool |-> [page_table |-> PtRemove(p.page_table,
                                                r.buffers[r.victim + 1].page_id),
                        next_victim |-> r.next_victim,
                        buffers |-> [r.buffers EXCEPT ![r.victim + 1].usage_count = 1]]]
  IN Of(EvictLoop(p.buffers, p.next_victim, 0, h, EvictFuel(p.buffers)))

\* ------------------------------------------------------------------------
\* buffer.rs: BufferPoolManager.  The results are
\* [res, frame, page_id, pool, disk] with res one of "Ok", "NoFreeBuffer",
\* "Io", "Panic" (Arc::get_mut(..).unwrap() on a pinned victim).

\* BufferPoolManager::fetch_page
FetchPage(p, d, h, page_id, fail) ==
  LET Hit(frame_id) ==
        [res |-> "Ok", frame |-> frame_id, page_id |-> page_id, disk |-> d,
         pool |-> [p EXCEPT !.buffers[frame_id + 1].usage_count = @ + 1]]
      Failed(res, q, d1) ==
        [res |-> res, frame |-> NoFrame, page_id |-> page_id, disk |-> d1, pool |-> q]
      Load(q, frame_id, evict_page_id, d1, f1) ==
        IF fail = "read" \/ ~ReadPageOk(d1, page_id)
        THEN Failed("Io", [q EXCEPT !.buffers[frame_id + 1] = f1], d1)
        ELSE [res |-> "Ok", frame |-> frame_id, page_id |-> page_id, disk |-> d1,
              pool |-> [q EXCEPT
                !.buffers[frame_id + 1] = [f1 EXCEPT !.page = ReadPageData(d1, page_id)],
                !.page_table = PtInsert(PtRemove(@, evict_page_id), page_id, frame_id)]]
      Reuse(q, frame_id, frame) ==
        IF PinCount(h, frame_id) > 0 THEN Failed("Panic", q, d)
        ELSE IF frame.is_dirty /\ fail = "write" THEN Failed("Io", q, d)
        ELSE Load(q, frame_id, frame.page_id,
                  IF frame.is_dirty THEN WritePageData(d, frame.page_id, frame.page)
                  ELSE d,
                  [frame EXCEPT !.page_id = page_id, !.is_dirty = FALSE])
      Miss(e) ==
        IF e.victim = NoFrame THEN Failed("NoFreeBuffer", e.pool, d)
        ELSE Reuse(e.pool, e.victim, e.pool.buffers[e.victim + 1])
  IN IF PtGet(p.page_table, page_id) # NoFrame
     THEN Hit(PtGet(p.page_table, page_id))
     ELSE Miss(Evict(p, h))

\* BufferPoolManager::create_page
CreatePage(p, d, h, fail) ==
  LET Failed(res, q) ==
        [res |-> res, frame |-> NoFrame, page_id |-> INVALID_PAGE_ID, disk |-> d,
         pool |-> q]
      Install(q, frame_id, evict_page_id, d1, page_id, frame) ==
        [res |-> "Ok", frame |-> frame_id, page_id |-> page_id,
         disk |-> AllocatePage(d1),
         pool |-> [q EXCEPT
           !.buffers[frame_id + 1] =
             [frame EXCEPT !.page_id = page_id, !.page = ZeroPage, !.is_dirty = TRUE],
           !.page_table = PtInsert(PtRemove(@, evict_page_id), page_id, frame_id)]]
      Written(q, frame_id, frame, d1) ==
        Install(q, frame_id, frame.page_id, d1, d1.next_page_id, frame)
      Reuse(q, frame_id, frame) ==
        IF PinCount(h, frame_id) > 0 THEN Failed("Panic", q)
        ELSE IF frame.is_dirty /\ fail = "write" THEN Failed("Io", q)
        ELSE Written(q, frame_id, frame,
                     IF frame.is_dirty THEN WritePageData(d, frame.page_id, frame.page)
                     ELSE d)
      Got(e) ==
        IF e.victim = NoFrame THEN Failed("NoFreeBuffer", e.pool)
        ELSE Reuse(e.pool, e.victim, e.pool.buffers[e.victim + 1])
  IN Got(Evict(p, h))

\* ------------------------------------------------------------------------
\* latch.rs / parking_lot: the RwLock of a frame's buffer, read off the
\* handles.  mode "pin" is an Arc with no guard, "r" an
\* OwnedRwLockReadGuard, "w" an OwnedRwLockWriteGuard.

Latched(h, f, modes) ==
  \E w \in 1..Len(h) : \E i \in 1..Len(h[w]) :
    h[w][i].frame = f /\ h[w][i].mode \in modes

\* write_owned returns / try_write_owned is Some
CanWrite(h, f) == ~Latched(h, f, {"r", "w"})

\* read_owned returns
CanRead(h, f) == ~Latched(h, f, {"w"})

Handle(f, mode, page_id, lvl) ==
  [frame |-> f, mode |-> mode, page_id |-> page_id, lvl |-> lvl]

Top(hs) == hs[Len(hs)]

SetTopMode(hs, mode) == [hs EXCEPT ![Len(hs)].mode = mode]

\* the guards of the calls at depth >= lvl go out of scope
DropFrom(hs, lvl) == SelectSeq(hs, LAMBDA x : x.lvl < lvl)

\* the guard of the node of the call at depth lvl (rw_node_buffer)
RECURSIVE NodeHandleFrom(_, _, _)
NodeHandleFrom(hs, lvl, i) ==
  IF hs[i].lvl = lvl THEN hs[i] ELSE NodeHandleFrom(hs, lvl, i + 1)

NodeHandle(hs, lvl) == NodeHandleFrom(hs, lvl, 1)

PageOf(p, f) == p.buffers[f + 1].page

SetPage(p, f, page) == [p EXCEPT !.buffers[f + 1].page = page]

SetDirty(p, f) == [p EXCEPT !.buffers[f + 1].is_dirty = TRUE]

\* the body of the node page in frame f, replaced
SetBody(p, f, body) == SetPage(p, f, NodeWithBody(PageOf(p, f), body))

\* ------------------------------------------------------------------------
\* Values and locals

\* values are as long as a leaf takes (Leaf::max_value_size)
ValueLen == LeafMaxValueSize(NodeBody(ZeroPage))

Values == 1..2

NoValue == 0

NoWrite == 0 - 1

\* value number ItemX is the string "x" of the catalog round trip, and the
\* numbers from PageIdValue(0) on are page ids as the catalog stores them
\* (executor.rs line 114)
ItemX == 3

PageIdValue(id) == 16 + id

\* the bytes of value number n
ValueOf(n) ==
  IF n >= PageIdValue(0) THEN PageIdBytes(n - PageIdValue(0))
  ELSE IF n = ItemX THEN <<120>>
  ELSE SubSeq([i \in 1..ValueLen |-> (n * 32 + i) % 256], 1, ValueLen)

Keys == 1..NKeys

\* the page of the B+-tree's header (Access.btree_page_id) when no table is
\* named; PageId::CATALOG_PAGE_ID
TreePageId == 0

\* no request of the executor is being served
NoReq ==
  [kind |-> "none", table_id |-> 0, key |-> 0, phase |-> "done", log |-> <<>>,
   op |-> "none", limit |-> 0, count |-> 0, tree |-> 0]

IdleLoc ==
  [op |-> "none", key |-> 0, value |-> 0, target |-> INVALID_PAGE_ID, lvl |-> 0,
   has_ret |-> FALSE, ret_key |-> <<>>, ret_child |-> INVALID_PAGE_ID,
   next_id |-> INVALID_PAGE_ID, found |-> FALSE, bytes |-> <<>>,
   todo |-> {}, cur |-> INVALID_PAGE_ID, index |-> 0,
   btree_page_id |-> TreePageId, req |-> NoReq]

NoLast == [op |-> "none", key |-> 0, value |-> 0, res |-> "none", found |-> FALSE, bytes |-> <<>>]

\* Operations started are counted, each kind up to its bound.
MaxPuts == 8

MaxGets == 1

MaxFlushes == 1

\* Keys holding their second value at any one time.
MaxOverwritten == 1

\* The ghost of the tree's pages: for each page id the bytes a worker last
\* left in the page's buffer through a write guard (<<>> before the first
\* write), after a step of worker w.  Only w changes the buffers it holds.
Wrote(w) ==
  LET Hit(i) == {j \in 1..Len(held[w]) :
                   /\ held[w][j].page_id = i - 1
                   /\ PageOf(pool', held[w][j].frame) # PageOf(pool, held[w][j].frame)}
      Of(i, hit) == IF hit = {} THEN written[i]
                    ELSE PageOf(pool', held[w][CHOOSE j \in hit : TRUE].frame)
  IN SubSeq([i \in 1..MaxPages |-> Of(i, Hit(i))], 1, MaxPages)

\* an operation returns: every guard it still holds is dropped
Return(w, res, found, bytes) ==
  /\ held' = [held EXCEPT ![w] = <<>>]
  /\ pc' = [pc EXCEPT ![w] = "idle"]
  /\ loc' = [loc EXCEPT ![w] = [IdleLoc EXCEPT !.req = loc[w].req]]
  /\ last' = [last EXCEPT ![w] =
       [op |-> loc[w].op, key |-> loc[w].key, value |-> loc[w].value,
        res |-> res, found |-> found, bytes |-> bytes]]
  /\ stored' = IF loc[w].op = "put" /\ res = "Ok"
               THEN [stored EXCEPT ![loc[w].key] = loc[w].value] ELSE stored
  /\ snap' = [snap EXCEPT ![w] = <<>>]

\* an operation goes on to its next step
Goto(w, next_pc, handles, locals) ==
  /\ held' = [held EXCEPT ![w] = handles]
  /\ pc' = [pc EXCEPT ![w] = next_pc]
  /\ loc' = [loc EXCEPT ![w] = locals]
  /\ UNCHANGED <<last, stored>>

\* The page fetch_page(page_id) would hand out: the frame's bytes when the
\* page table has it, else the bytes on disk; <<>> when the read would fail.
LogicalPage(p, d, page_id) ==
  IF PtGet(p.page_table, page_id) # NoFrame
  THEN PageOf(p, PtGet(p.page_table, page_id))
  ELSE IF ReadPageOk(d, page_id) THEN ReadPageData(d, page_id) ELSE <<>>

LogicalPages(p, d) ==
  SubSeq([i \in 1..MaxPages |-> LogicalPage(p, d, i - 1)], 1, MaxPages)

\* a call of fetch_page or create_page by worker w: the pool mutex is taken
\* and released within the call
PoolCall(w, r) ==
  /\ pool_lock = NoWorker
  /\ pool' = r.pool
  /\ disk' = r.disk
  /\ UNCHANGED <<pool_lock, disk_lock, nops>>

\* fetch_page(page_id)? then on to next_pc holding the Arc
FetchStep(w, page_id, lvl, next_pc) ==
  \E r \in {FetchPage(pool, disk, held, page_id, "none")} :
     /\ PoolCall(w, r)
     /\ IF r.res = "Ok"
        THEN /\ Goto(w, next_pc, Append(held[w], Handle(r.frame, "pin", page_id, lvl)),
                     loc[w])
             /\ UNCHANGED snap
        ELSE Return(w, r.res, FALSE, <<>>)


\* ------------------------------------------------------------------------
\* btree.rs: Access::put and put_internal, one action per call into the
\* buffer pool and per latch taken.

StartPut(w, k, v) ==
  /\ pc[w] = "idle"
  /\ nops' = [nops EXCEPT !.put = @ + 1]
  /\ pc' = [pc EXCEPT ![w] = "put_fetch_meta"]
  /\ loc' = [loc EXCEPT ![w] = [IdleLoc EXCEPT !.op = "put", !.key = k, !.value = v]]
  /\ last' = [last EXCEPT ![w] = NoLast]
  /\ UNCHANGED <<disk, pool, pool_lock, disk_lock, held, stored, snap, written>>

\* line 274: fetch_page(self.btree_page_id)?
PutFetchMeta(w) ==
  /\ pc[w] = "put_fetch_meta"
  /\ FetchStep(w, loc[w].btree_page_id, 0, "put_lock_meta")
  /\ written' = Wrote(w)

\* A put that reads the header under its pin, without the header's latch.
PutLockMetaUnlatched(w) ==
  /\ pc[w] = "put_lock_meta"
  /\ Goto(w, "put_fetch_node", held[w],
          [loc[w] EXCEPT !.target = RootPageId(PageOf(pool, Top(held[w]).frame)),
                         !.lvl = 1])
  /\ snap' = [snap EXCEPT ![w] = LogicalPages(pool, disk)]
  /\ UNCHANGED <<disk, pool, pool_lock, disk_lock, nops>>
  /\ written' = Wrote(w)

\* line 274: .write_owned(); line 278: root_page_id
PutLockMeta(w) ==
  /\ pc[w] = "put_lock_meta"
  /\ CanWrite(held, Top(held[w]).frame)
  /\ Goto(w, "put_fetch_node", SetTopMode(held[w], "w"),
          [loc[w] EXCEPT !.target = RootPageId(PageOf(pool, Top(held[w]).frame)),
                         !.lvl = 1])
  /\ snap' = [snap EXCEPT ![w] = LogicalPages(pool, disk)]
  /\ UNCHANGED <<disk, pool, pool_lock, disk_lock, nops>>
  /\ written' = Wrote(w)

\* A put that couples its latches: before it fetches a node it drops every
\* guard above the node's parent.
PutFetchNodeCoupled(w) ==
  /\ pc[w] = "put_fetch_node"
  /\ \E r \in {FetchPage(pool, disk, [held EXCEPT ![w] = <<Top(held[w])>>],
                          loc[w].target, "none")} :
       /\ PoolCall(w, r)
       /\ IF r.res = "Ok"
          THEN /\ Goto(w, "put_lock_node",
                       <<Top(held[w]), Handle(r.frame, "pin", loc[w].target, loc[w].lvl)>>,
                       loc[w])
               /\ UNCHANGED snap
          ELSE Return(w, r.res, FALSE, <<>>)
  /\ written' = Wrote(w)

\* lines 279 and 248: fetch_page(root_page_id)? / fetch_page(child_page_id)?
PutFetchNode(w) ==
  /\ pc[w] = "put_fetch_node"
  /\ FetchStep(w, loc[w].target, loc[w].lvl, "put_lock_node")
  /\ written' = Wrote(w)

\* lines 279 and 248: .write_owned(), then put_internal up to its next call:
\* lines 205-212 on a leaf, lines 246-247 on a branch
PutLockNode(w) ==
  /\ pc[w] = "put_lock_node"
  /\ CanWrite(held, Top(held[w]).frame)
  /\ UNCHANGED <<disk, pool_lock, disk_lock, nops>>
  /\ LET f == Top(held[w]).frame
         page == PageOf(pool, f)
         d == NodeBody(page)
         key == KeyOf(loc[w].key)
         value == ValueOf(loc[w].value)
         hs == SetTopMode(held[w], "w")
     IN
       IF IsLeafPage(page)
       THEN
         IF Len(value) > LeafMaxValueSize(d)
         THEN Return(w, "Panic", FALSE, <<>>) /\ UNCHANGED pool
         ELSE IF LeafPutOk(d, key, value)
         THEN /\ pool' = SetDirty(SetBody(pool, f, LeafPut(d, key, value)), f)
              /\ Goto(w, "put_return", hs, [loc[w] EXCEPT !.has_ret = FALSE])
              /\ UNCHANGED snap
         ELSE /\ pool' = SetBody(pool, f, LeafPut(d, key, value))
              /\ Goto(w, IF LeafNext(d) = INVALID_PAGE_ID THEN "put_create_leaf"
                         ELSE "put_fetch_next",
                      hs, [loc[w] EXCEPT !.next_id = LeafNext(d)])
              /\ UNCHANGED snap
       ELSE IF IsBranchPage(page)
       THEN
         IF BrFindPanics(d)
         THEN Return(w, "Panic", FALSE, <<>>) /\ UNCHANGED pool
         ELSE /\ Goto(w, "put_fetch_node", hs,
                      [loc[w] EXCEPT !.target = BrChild(d, BrFind(d, key)),
                                     !.lvl = @ + 1])
              /\ UNCHANGED <<pool, snap>>
       ELSE Return(w, "Panic", FALSE, <<>>) /\ UNCHANGED pool
  /\ written' = Wrote(w)

\* line 216: fetch_page(next_leaf_page_id)?
PutFetchNext(w) ==
  /\ pc[w] = "put_fetch_next"
  /\ FetchStep(w, loc[w].next_id, loc[w].lvl, "put_try_next")
  /\ written' = Wrote(w)

\* lines 217-221: try_write_owned, or Err(Error::Deadlock)
PutTryNext(w) ==
  /\ pc[w] = "put_try_next"
  /\ UNCHANGED <<disk, pool, pool_lock, disk_lock, nops>>
  /\ IF CanWrite(held, Top(held[w]).frame)
     THEN Goto(w, "put_create_leaf", SetTopMode(held[w], "w"), loc[w]) /\ UNCHANGED snap
     ELSE Return(w, "Deadlock", FALSE, <<>>)
  /\ written' = Wrote(w)

\* lines 223-231: create_page()?, then the sibling links of the next leaf
\* and of the leaf
PutCreateLeaf(w) ==
  /\ pc[w] = "put_create_leaf"
  /\ disk.next_page_id < MaxPages
  /\ \E r \in {CreatePage(pool, disk, held, "none")} :
     LET leaf_f == NodeHandle(held[w], loc[w].lvl).frame
         next_f == Top(held[w]).frame
         has_next == loc[w].next_id # INVALID_PAGE_ID
         p1 == IF has_next
               THEN SetBody(r.pool, next_f,
                            LeafSetPrev(NodeBody(PageOf(r.pool, next_f)), r.page_id))
               ELSE r.pool
         p2 == SetBody(p1, leaf_f, LeafSetNext(NodeBody(PageOf(p1, leaf_f)), r.page_id))
     IN
       /\ pool_lock = NoWorker
       /\ disk' = r.disk
       /\ UNCHANGED <<pool_lock, disk_lock, nops>>
       /\ IF r.res # "Ok"
          THEN Return(w, r.res, FALSE, <<>>) /\ pool' = r.pool
          ELSE IF has_next /\ ~IsLeafPage(PageOf(r.pool, next_f))
          THEN Return(w, "Panic", FALSE, <<>>) /\ pool' = r.pool
          ELSE /\ pool' = p2
               /\ Goto(w, "put_lock_new_leaf",
                       \* the guard of the next leaf ends with the if-let block
                       Append(IF has_next THEN SubSeq(held[w], 1, Len(held[w]) - 1)
                              ELSE held[w],
                              Handle(r.frame, "pin", r.page_id, loc[w].lvl)),
                       [loc[w] EXCEPT !.target = r.page_id])
               /\ UNCHANGED snap
  /\ written' = Wrote(w)

\* lines 233-242: write_owned on the new leaf, split_put, Ok(Some(..))
PutLockNewLeaf(w) ==
  /\ pc[w] = "put_lock_new_leaf"
  /\ CanWrite(held, Top(held[w]).frame)
  /\ UNCHANGED <<disk, pool_lock, disk_lock, nops>>
  /\ \E new_page \in {NodeSetType(PageOf(pool, Top(held[w]).frame), NodeTypeLeaf)} :
     \E sp \in {LeafSplitPut(NodeBody(PageOf(pool, NodeHandle(held[w], loc[w].lvl).frame)),
                             LeafInitialize(NodeBody(new_page)),
                             KeyOf(loc[w].key), ValueOf(loc[w].value))} :
     LET new_f == Top(held[w]).frame
         leaf_h == NodeHandle(held[w], loc[w].lvl)
         new_leaf == LeafSetNext(LeafSetPrev(sp.new_leaf, leaf_h.page_id), loc[w].next_id)
     IN
       IF sp.panic
       THEN Return(w, "Panic", FALSE, <<>>) /\ UNCHANGED pool
       ELSE /\ pool' = SetDirty(SetPage(SetBody(pool, leaf_h.frame, sp.self),
                                        new_f, NodeWithBody(new_page, new_leaf)),
                                leaf_h.frame)
            /\ Goto(w, "put_return", SetTopMode(held[w], "w"),
                    [loc[w] EXCEPT !.has_ret = TRUE, !.ret_key = sp.key,
                                   !.ret_child = Top(held[w]).page_id])
            /\ UNCHANGED snap
  /\ written' = Wrote(w)

\* put_internal returns to its caller: its guards are dropped; lines 249-268
\* in the parent branch, lines 280 and 289 in put
PutReturn(w) ==
  /\ pc[w] = "put_return"
  /\ UNCHANGED <<disk, pool_lock, disk_lock, nops>>
  /\ LET hs == DropFrom(held[w], loc[w].lvl)
     IN
       IF loc[w].lvl = 1
       THEN IF loc[w].has_ret
            THEN Goto(w, "put_create_root", hs, loc[w]) /\ UNCHANGED <<pool, snap>>
            ELSE Return(w, "Ok", FALSE, <<>>) /\ UNCHANGED pool
       ELSE
         LET f == NodeHandle(hs, loc[w].lvl - 1).frame
             b == NodeBody(PageOf(pool, f))
             index == BrFind(b, KeyOf(loc[w].key))
             b2 == BrInsert(b, index + 1, loc[w].ret_key, loc[w].ret_child)
         IN
           IF ~loc[w].has_ret
           THEN Goto(w, "put_return", hs, [loc[w] EXCEPT !.lvl = @ - 1])
                /\ UNCHANGED <<pool, snap>>
           ELSE IF BrInsertPanics(b, index + 1)
           THEN Return(w, "Panic", FALSE, <<>>) /\ UNCHANGED pool
           ELSE IF BrMaxPairs(b2) <= BrNumPairs(b2)
           THEN /\ pool' = SetBody(pool, f, b2)
                /\ Goto(w, "put_create_branch", hs, [loc[w] EXCEPT !.lvl = @ - 1])
                /\ UNCHANGED snap
           ELSE /\ pool' = SetDirty(SetBody(pool, f, b2), f)
                /\ Goto(w, "put_return", hs,
                        [loc[w] EXCEPT !.lvl = @ - 1, !.has_ret = FALSE])
                /\ UNCHANGED snap
  /\ written' = Wrote(w)

\* create_page()? then on to next_pc holding the Arc
CreateStep(w, lvl, next_pc) ==
  \E r \in {CreatePage(pool, disk, held, "none")} :
     /\ disk.next_page_id < MaxPages
     /\ PoolCall(w, r)
     /\ IF r.res = "Ok"
        THEN /\ Goto(w, next_pc, Append(held[w], Handle(r.frame, "pin", r.page_id, lvl)),
                     loc[w])
             /\ UNCHANGED snap
        ELSE Return(w, r.res, FALSE, <<>>)

\* line 254
PutCreateBranch(w) ==
  /\ pc[w] = "put_create_branch"
  /\ CreateStep(w, loc[w].lvl, "put_lock_new_branch")
  /\ written' = Wrote(w)

\* lines 255-261: write_owned on the new branch, split, Ok(Some(..))
PutLockNewBranch(w) ==
  /\ pc[w] = "put_lock_new_branch"
  /\ CanWrite(held, Top(held[w]).frame)
  /\ UNCHANGED <<disk, pool_lock, disk_lock, nops, snap>>
  /\ LET new_f == Top(held[w]).frame
         f == NodeHandle(held[w], loc[w].lvl).frame
         new_page == NodeSetType(PageOf(pool, new_f), NodeTypeBranch)
         s == BrSplit(NodeBody(PageOf(pool, f)), NodeBody(new_page))
     IN /\ pool' = SetDirty(SetBody(SetPage(pool, new_f, NodeWithBody(new_page, s.new_branch)),
                                    f, s.self), f)
        /\ Goto(w, "put_return", SetTopMode(held[w], "w"),
                [loc[w] EXCEPT !.has_ret = TRUE, !.ret_key = s.key,
                               !.ret_child = Top(held[w]).page_id])
  /\ written' = Wrote(w)

\* line 281
PutCreateRoot(w) ==
  /\ pc[w] = "put_create_root"
  /\ CreateStep(w, 1, "put_lock_new_root")
  /\ written' = Wrote(w)

\* lines 282-289: the new root, the header's root_page_id, Ok(())
PutLockNewRoot(w) ==
  /\ pc[w] = "put_lock_new_root"
  /\ CanWrite(held, Top(held[w]).frame)
  /\ UNCHANGED <<disk, pool_lock, disk_lock, nops>>
  /\ LET new_h == Top(held[w])
         meta_f == held[w][1].frame
         root_page_id == RootPageId(PageOf(pool, meta_f))
         new_page == NodeSetType(PageOf(pool, new_h.frame), NodeTypeBranch)
         branch == BrInitialize(NodeBody(new_page), loc[w].ret_key, root_page_id,
                                loc[w].ret_child)
         p1 == SetPage(pool, new_h.frame, NodeWithBody(new_page, branch))
     IN /\ pool' = SetDirty(SetPage(p1, meta_f,
                                    SetRootPageId(PageOf(p1, meta_f), new_h.page_id)),
                            meta_f)
        /\ Return(w, "Ok", FALSE, <<>>)
  /\ written' = Wrote(w)

\* ------------------------------------------------------------------------
\* btree.rs: Access::get and get_internal

StartGet(w, k) ==
  /\ pc[w] = "idle"
  /\ nops' = [nops EXCEPT !.get = @ + 1]
  /\ pc' = [pc EXCEPT ![w] = "get_fetch_meta"]
  /\ loc' = [loc EXCEPT ![w] = [IdleLoc EXCEPT !.op = "get", !.key = k,
                                               !.value = stored[k]]]
  /\ last' = [last EXCEPT ![w] = NoLast]
  /\ UNCHANGED <<disk, pool, pool_lock, disk_lock, held, stored, snap, written>>

\* line 106: fetch_page(self.btree_page_id)?
GetFetchMeta(w) ==
  /\ pc[w] = "get_fetch_meta"
  /\ FetchStep(w, loc[w].btree_page_id, 0, "get_lock_meta")
  /\ UNCHANGED written

\* line 106: .read_owned(); line 110: root_page_id
GetLockMeta(w) ==
  /\ pc[w] = "get_lock_meta"
  /\ CanRead(held, Top(held[w]).frame)
  /\ Goto(w, "get_fetch_node", SetTopMode(held[w], "r"),
          [loc[w] EXCEPT !.target = RootPageId(PageOf(pool, Top(held[w]).frame)),
                         !.lvl = 1])
  /\ UNCHANGED <<disk, pool, pool_lock, disk_lock, snap, nops>>
  /\ UNCHANGED written

\* lines 111 and 98: fetch_page(..)? with the guard of the parent held
GetFetchNode(w) ==
  /\ pc[w] = "get_fetch_node"
  /\ FetchStep(w, loc[w].target, loc[w].lvl, "get_lock_node")
  /\ UNCHANGED written

\* lines 111 and 98: .read_owned()
GetLockNode(w) ==
  /\ pc[w] = "get_lock_node"
  /\ CanRead(held, Top(held[w]).frame)
  /\ Goto(w, "get_node", SetTopMode(held[w], "r"), loc[w])
  /\ UNCHANGED <<disk, pool, pool_lock, disk_lock, snap, nops>>
  /\ UNCHANGED written

\* A get that keeps the guard of every node it went through.
GetNodeKeeps(w) ==
  /\ pc[w] = "get_node"
  /\ UNCHANGED <<disk, pool, pool_lock, disk_lock, nops>>
  /\ LET page == PageOf(pool, Top(held[w]).frame)
         d == NodeBody(page)
         key == KeyOf(loc[w].key)
     IN
       IF IsLeafPage(page)
       THEN /\ Goto(w, "get_return", held[w],
                    [loc[w] EXCEPT !.found = LeafGet(d, key).found,
                                   !.bytes = LeafGet(d, key).value])
            /\ UNCHANGED snap
       ELSE IF IsBranchPage(page) /\ ~BrFindPanics(d)
       THEN /\ Goto(w, "get_fetch_node", held[w],
                    [loc[w] EXCEPT !.target = BrChild(d, BrFind(d, key)), !.lvl = @ + 1])
            /\ UNCHANGED snap
       ELSE Return(w, "Panic", FALSE, <<>>)
  /\ UNCHANGED written

\* lines 112 and 99: drop the guard of the parent; lines 92-97: the node
GetNode(w) ==
  /\ pc[w] = "get_node"
  /\ UNCHANGED <<disk, pool, pool_lock, disk_lock, nops>>
  /\ LET page == PageOf(pool, Top(held[w]).frame)
         d == NodeBody(page)
         key == KeyOf(loc[w].key)
     IN
       IF IsLeafPage(page)
       THEN /\ Goto(w, "get_return", <<Top(held[w])>>,
                    [loc[w] EXCEPT !.found = LeafGet(d, key).found,
                                   !.bytes = LeafGet(d, key).value])
            /\ UNCHANGED snap
       ELSE IF IsBranchPage(page) /\ ~BrFindPanics(d)
       THEN /\ Goto(w, "get_fetch_node", <<Top(held[w])>>,
                    [loc[w] EXCEPT !.target = BrChild(d, BrFind(d, key)), !.lvl = @ + 1])
            /\ UNCHANGED snap
       ELSE Return(w, "Panic", FALSE, <<>>)
  /\ UNCHANGED written

\* line 94: Ok(..), and the guard of the leaf goes out of scope
GetReturn(w) ==
  /\ pc[w] = "get_return"
  /\ UNCHANGED <<disk, pool, pool_lock, disk_lock, nops>>
  /\ Return(w, "Ok", loc[w].found, loc[w].bytes)
  /\ UNCHANGED written

\* ------------------------------------------------------------------------
\* buffer.rs: BufferPoolManager::flush (called by Executor::flush)

RECURSIVE PagesIn(_, _)
PagesIn(page_table, i) ==
  IF i > Len(page_table) THEN {}
  ELSE (IF page_table[i] # NoFrame THEN {i - 1} ELSE {}) \cup PagesIn(page_table, i + 1)

\* lines 150-151: both mutexes are taken and kept to the end
StartFlush(w) ==
  /\ pc[w] = "idle"
  /\ nops.flush < MaxFlushes
  /\ pool_lock = NoWorker
  /\ nops' = [nops EXCEPT !.flush = @ + 1]
  /\ pool_lock' = w
  /\ disk_lock' = w
  /\ pc' = [pc EXCEPT ![w] = "flush_iter"]
  /\ loc' = [loc EXCEPT ![w] = [IdleLoc EXCEPT !.op = "flush",
                                               !.todo = PagesIn(pool.page_table, 1)]]
  /\ last' = [last EXCEPT ![w] = NoLast]
  /\ UNCHANGED <<disk, pool, held, stored, snap, written>>

\* lines 152-157: the loop goes to one more entry of page_table, in the
\* HashMap's order, and waits for the write latch of its frame
FlushIter(w) ==
  /\ pc[w] = "flush_iter"
  /\ \E page_id \in loc[w].todo :
       /\ loc[w].cur \in {INVALID_PAGE_ID, page_id}
       /\ LET f == PtGet(pool.page_table, page_id)
          IN IF CanWrite(held, f)
             THEN /\ disk' = WritePageData(disk, page_id, PageOf(pool, f))
                  /\ pool' = [pool EXCEPT !.buffers[f + 1].is_dirty = FALSE]
                  /\ loc' = [loc EXCEPT ![w].todo = @ \ {page_id},
                                        ![w].cur = INVALID_PAGE_ID]
             ELSE /\ loc[w].cur = INVALID_PAGE_ID
                  /\ loc' = [loc EXCEPT ![w].cur = page_id]
                  /\ UNCHANGED <<disk, pool>>
  /\ UNCHANGED <<pool_lock, disk_lock, held, pc, last, stored, snap, written, nops>>

\* lines 158-159
FlushDone(w) ==
  /\ pc[w] = "flush_iter"
  /\ loc[w].todo = {}
  /\ pool_lock' = NoWorker
  /\ disk_lock' = NoWorker
  /\ Return(w, "Ok", FALSE, <<>>)
  /\ UNCHANGED <<disk, pool, nops>>
  /\ UNCHANGED written

\* ------------------------------------------------------------------------
\* The initial state: a new file, BufferPool::new(PoolSize), and one
\* B+-tree made by Access::create (btree.rs lines 61-77).

NoHandles == Fill(NWorkers, <<>>)

\* Access::create on the pool p and the disk d: the header page and an
\* empty root leaf, each made by create_page and written through its guard
AccessCreate(p, d) ==
  LET Failed(c) ==
        [res |-> c.res, disk |-> c.disk, pool |-> c.pool,
         btree_page_id |-> INVALID_PAGE_ID]
      Header(c1, c2, p1) ==
        [res |-> "Ok", disk |-> c2.disk,
         pool |-> SetPage(p1, c1.frame,
                          SetRootPageId(PageOf(p1, c1.frame), c2.page_id)),
         btree_page_id |-> c1.page_id]
      Root(c1, c2, root) ==
        Header(c1, c2,
               SetPage(c2.pool, c2.frame,
                       NodeWithBody(root, LeafInitialize(NodeBody(root)))))
      Second(c1, c2) ==
        IF c2.res # "Ok" THEN Failed(c2)
        ELSE Root(c1, c2, NodeSetType(PageOf(c2.pool, c2.frame), NodeTypeLeaf))
      First(c1) ==
        IF c1.res # "Ok" THEN Failed(c1)
        ELSE Second(c1, CreatePage(c1.pool, c1.disk,
                                   <<<<Handle(c1.frame, "w", c1.page_id, 0)>>>>, "none"))
  IN First(CreatePage(p, d, NoHandles, "none"))

TreeCreated == AccessCreate(BufferPoolNew(PoolSize), DiskNew(<<>>))

Init ==
  /\ \E t \in {TreeCreated} : disk = t.disk /\ pool = t.pool
  /\ pool_lock = NoWorker
  /\ disk_lock = NoWorker
  /\ held = NoHandles
  /\ pc = Fill(NWorkers, "idle")
  /\ loc = Fill(NWorkers, IdleLoc)
  /\ last = Fill(NWorkers, NoLast)
  /\ stored = Fill(NKeys, NoValue)
  /\ snap = Fill(NWorkers, <<>>)
  /\ written = LogicalPages(pool, disk)
  /\ nops = [put |-> 0, get |-> 0, flush |-> 0, twice |-> 0]

\* one more step of the put that worker w is in
PutStep(w) ==
  \/ PutFetchMeta(w)
  \/ PutLockMeta(w)
  \/ PutFetchNode(w)
  \/ PutLockNode(w)
  \/ PutFetchNext(w)
  \/ PutTryNext(w)
  \/ PutCreateLeaf(w)
  \/ PutLockNewLeaf(w)
  \/ PutReturn(w)
  \/ PutCreateBranch(w)
  \/ PutLockNewBranch(w)
  \/ PutCreateRoot(w)
  \/ PutLockNewRoot(w)

GetStep(w) ==
  \/ GetFetchMeta(w)
  \/ GetLockMeta(w)
  \/ GetFetchNode(w)
  \/ GetLockNode(w)
  \/ GetNode(w)
  \/ GetReturn(w)

FlushStep(w) == FlushIter(w) \/ FlushDone(w)

\* ------------------------------------------------------------------------
\* One worker runs puts and gets one after the other.  New keys enter at
\* the low or the high end of the keys not yet stored, a stored key may be
\* put again with the second value, and the gets come after the puts.

Fresh(k) == stored[k] = NoValue

EndKey(k) ==
  /\ Fresh(k)
  /\ \/ \A j \in 1..(k - 1) : ~Fresh(j)
     \/ \A j \in (k + 1)..NKeys : ~Fresh(j)

PutFresh ==
  \E k \in Keys : EndKey(k) /\ nops.get = 0 /\ nops.put < MaxPuts /\ StartPut(1, k, 1)

PutAgain ==
  \E k \in Keys :
    /\ stored[k] = 1
    /\ Cardinality({j \in Keys : stored[j] = 2}) < MaxOverwritten
    /\ nops.get = 0
    /\ nops.put < MaxPuts
    /\ StartPut(1, k, 2)

Get == \E k \in Keys : nops.get < MaxGets /\ StartGet(1, k)

Next == PutFresh \/ PutAgain \/ Get \/ PutStep(1) \/ GetStep(1)

Spec == Init /\ [][Next]_vars

\* ------------------------------------------------------------------------
\* What the tree holds, read as fetch_page would hand the pages out

Logical(page_id) == LogicalPage(pool, disk, page_id)

LeafBody(page_id) == NodeBody(Logical(page_id))

\* the pages made by create_page that are leaves
LeafPageIds ==
  {p \in 1..(disk.next_page_id - 1) : Logical(p) # <<>> /\ IsLeafPage(Logical(p))}

BranchPageIds ==
  {p \in 1..(disk.next_page_id - 1) : Logical(p) # <<>> /\ IsBranchPage(Logical(p))}

NoPutRunning == \A w \in Workers : loc[w].op # "put"

\* C1: a get that returns after puts that returned Ok finds a key exactly
\* when a put stored it, and then yields the bytes of the last value put;
\* a key never put is reported absent.
C1_RoundTrip ==
  \A w \in Workers :
    last[w].op = "get" =>
      /\ last[w].res = "Ok"
      /\ last[w].found = (stored[last[w].key] # NoValue)
      /\ last[w].found => last[w].bytes = ValueOf(stored[last[w].key])

\* C9: with no put under way, the keys of every leaf ascend strictly by
\* slot, and every key of a leaf is below every key of its next sibling.
C9_LeafOrder ==
  NoPutRunning =>
    \A a \in LeafPageIds :
      /\ \A i \in 0..(LeafNumRecords(LeafBody(a)) - 2) :
           KeyCmp(LeafKey(LeafBody(a), i), LeafKey(LeafBody(a), i + 1)) < 0
      /\ LeafNext(LeafBody(a)) \in LeafPageIds =>
           \A i \in 0..(LeafNumRecords(LeafBody(a)) - 1) :
             \A j \in 0..(LeafNumRecords(LeafBody(LeafNext(LeafBody(a)))) - 1) :
               KeyCmp(LeafKey(LeafBody(a), i),
                      LeafKey(LeafBody(LeafNext(LeafBody(a))), j)) < 0

\* C10: with no put under way, the leaves as fetch_page hands them out are
\* a doubly linked list: a.next = b exactly when b.prev = a, one leaf has
\* no prev and one leaf has no next.
C10_LeafChain ==
  NoPutRunning =>
    /\ \A a \in LeafPageIds :
         /\ LeafNext(LeafBody(a)) # INVALID_PAGE_ID =>
              /\ LeafNext(LeafBody(a)) \in LeafPageIds
              /\ LeafPrev(LeafBody(LeafNext(LeafBody(a)))) = a
         /\ LeafPrev(LeafBody(a)) # INVALID_PAGE_ID =>
              /\ LeafPrev(LeafBody(a)) \in LeafPageIds
              /\ LeafNext(LeafBody(LeafPrev(LeafBody(a)))) = a
    /\ Cardinality({a \in LeafPageIds : LeafPrev(LeafBody(a)) = INVALID_PAGE_ID}) = 1
    /\ Cardinality({a \in LeafPageIds : LeafNext(LeafBody(a)) = INVALID_PAGE_ID}) = 1

\* the keys stored in the leaves under page_id, at most `fuel` levels down
RECURSIVE SubtreeKeys(_, _)
SubtreeKeys(page_id, fuel) ==
  IF fuel = 0 \/ page_id \notin 1..(disk.next_page_id - 1) \/ Logical(page_id) = <<>>
  THEN {}
  ELSE IF IsLeafPage(Logical(page_id))
  THEN {LeafKey(LeafBody(page_id), i) : i \in 0..(LeafNumRecords(LeafBody(page_id)) - 1)}
  ELSE UNION {SubtreeKeys(BrChild(NodeBody(Logical(page_id)), i), fuel - 1) :
                i \in 0..(BrNumPairs(NodeBody(Logical(page_id))) - 1)}

\* the levels a tree of the model can have
MaxDepth == 4

\* C11: with no put under way, in every branch the keys of pairs
\* 1..num_pairs-1 ascend strictly, and every key stored under pairs[i].child
\* is >= pairs[i].key (for i >= 1) and < pairs[i+1].key (for i below the
\* last pair).
C11_BranchOrder ==
  NoPutRunning =>
    \A a \in BranchPageIds : \A b \in {NodeBody(Logical(a))} :
      /\ \A i \in 1..(BrNumPairs(b) - 2) : KeyCmp(BrKey(b, i), BrKey(b, i + 1)) < 0
      /\ \A i \in 0..(BrNumPairs(b) - 1) :
           \A k \in SubtreeKeys(BrChild(b, i), MaxDepth) :
             /\ i >= 1 => KeyCmp(BrKey(b, i), k) <= 0
             /\ i < BrNumPairs(b) - 1 => KeyCmp(k, BrKey(b, i + 1)) < 0

\* C11: a branch has split and its parent holds three pairs
C11_Witness ==
  /\ NoPutRunning
  /\ Cardinality(BranchPageIds) >= 3
  /\ \E a \in BranchPageIds : BrNumPairs(NodeBody(Logical(a))) >= 3

\* C35: when a put drops the write guard of a page whose bytes it has
\* changed (snap[w] holds the pages as they were when the put began), the
\* buffer's is_dirty is set.
C35_DirtyOnRelease ==
  [][\A w \in Workers : \A i \in 1..Len(held[w]) :
       (/\ loc[w].op = "put"
        /\ held[w][i].mode = "w"
        /\ \A j \in 1..Len(held'[w]) : held'[w][j].frame # held[w][i].frame
        /\ PageOf(pool', held[w][i].frame) # snap[w][held[w][i].page_id + 1])
         => pool'.buffers[held[w][i].frame + 1].is_dirty]_vars

\* worker w is about to call branch.insert(index + 1, key, child) on the
\* parent of the node that split (btree.rs line 252)
AtBranchInsert(w) == pc[w] = "put_return" /\ loc[w].has_ret /\ loc[w].lvl > 1

\* the branch of that call
InsertBranch(w) ==
  NodeBody(PageOf(pool, NodeHandle(DropFrom(held[w], loc[w].lvl), loc[w].lvl - 1).frame))

\* C34: every insert(index, key, child) that put_internal calls has
\* index <= num_pairs and num_pairs < max_pairs, and with no put under way
\* every branch has num_pairs < max_pairs.
C34_InsertHasRoom ==
  /\ \A w \in Workers :
       AtBranchInsert(w)
         => \A b \in {InsertBranch(w)} :
              /\ ~BrFindPanics(b)
              /\ BrFind(b, KeyOf(loc[w].key)) + 1 <= BrNumPairs(b)
              /\ BrNumPairs(b) < BrMaxPairs(b)
  /\ NoPutRunning
       => \A a \in BranchPageIds :
            BrNumPairs(NodeBody(Logical(a))) < BrMaxPairs(NodeBody(Logical(a)))

\* ------------------------------------------------------------------------
\* btree.rs: Access::iter / iter_rev, iter_internal / iter_rev_internal and
\* Iter::next / IterRev::next.  The caller calls next with an empty buf
\* until it returns None; loc.bytes is the transcript of what next handed
\* out, key then value for each Some.  loc.key = NoKey is a scan from None.

NoKey == 0

ScanOps == {"iter", "iter_rev"}

StartScan(w, op, k) ==
  /\ pc[w] = "idle"
  /\ nops' = [nops EXCEPT !.get = @ + 1]
  /\ pc' = [pc EXCEPT ![w] = "scan_fetch_meta"]
  /\ loc' = [loc EXCEPT ![w] = [IdleLoc EXCEPT !.op = op, !.key = k]]
  /\ last' = [last EXCEPT ![w] = NoLast]
  /\ UNCHANGED <<disk, pool, pool_lock, disk_lock, held, stored, snap, written>>

\* lines 144 and 188: fetch_page(self.btree_page_id)?
ScanFetchMeta(w) ==
  /\ pc[w] = "scan_fetch_meta"
  /\ FetchStep(w, loc[w].btree_page_id, 0, "scan_lock_meta")
  /\ UNCHANGED written

\* lines 144 and 188: .read_owned(); lines 148 and 192: root_page_id
ScanLockMeta(w) ==
  /\ pc[w] = "scan_lock_meta"
  /\ CanRead(held, Top(held[w]).frame)
  /\ Goto(w, "scan_fetch_node", SetTopMode(held[w], "r"),
          [loc[w] EXCEPT !.target = RootPageId(PageOf(pool, Top(held[w]).frame)),
                         !.lvl = 1])
  /\ UNCHANGED <<disk, pool, pool_lock, disk_lock, snap, nops>>
  /\ UNCHANGED written

\* lines 149, 136, 193 and 180: fetch_page(..)? with the guard of the parent held
ScanFetchNode(w) ==
  /\ pc[w] = "scan_fetch_node"
  /\ FetchStep(w, loc[w].target, loc[w].lvl, "scan_lock_node")
  /\ UNCHANGED written

\* .read_owned() of the same lines
ScanLockNode(w) ==
  /\ pc[w] = "scan_lock_node"
  /\ CanRead(held, Top(held[w]).frame)
  /\ Goto(w, "scan_node", SetTopMode(held[w], "r"), loc[w])
  /\ UNCHANGED <<disk, pool, pool_lock, disk_lock, snap, nops>>
  /\ UNCHANGED written

\* iter_internal lines 123-125 and iter_rev_internal lines 162-168: where the
\* scan starts in the leaf
IterStart(d, k) == IF k = NoKey THEN 0 ELSE LeafFind(d, KeyOf(k)).index

IterRevStart(d, k) ==
  LET At(f) == IF f.ok THEN f.index ELSE f.index - 1
  IN IF k = NoKey THEN LeafNumRecords(d) - 1 ELSE At(LeafFind(d, KeyOf(k)))

\* usize arithmetic that panics before a pair is read
ScanBranchPanics(b, op, k) ==
  IF k = NoKey THEN op = "iter_rev" /\ BrNumPairs(b) = 0 ELSE BrFindPanics(b)

\* lines 134 and 176-178: the pair to follow
ScanBranchIndex(b, op, k) ==
  IF k # NoKey THEN BrFind(b, KeyOf(k))
  ELSE IF op = "iter" THEN 0 ELSE BrNumPairs(b) - 1

\* lines 150, 137, 194 and 181: drop the guard of the parent; the node
ScanNode(w) ==
  /\ pc[w] = "scan_node"
  /\ UNCHANGED <<disk, pool, pool_lock, disk_lock, nops>>
  /\ LET page == PageOf(pool, Top(held[w]).frame)
         d == NodeBody(page)
     IN
       IF IsLeafPage(page)
       THEN /\ Goto(w, "scan_next", <<Top(held[w])>>,
                    [loc[w] EXCEPT !.index = IF loc[w].op = "iter"
                                             THEN IterStart(d, loc[w].key)
                                             ELSE IterRevStart(d, loc[w].key)])
            /\ UNCHANGED snap
       ELSE IF IsBranchPage(page) /\ ~ScanBranchPanics(d, loc[w].op, loc[w].key)
       THEN /\ Goto(w, "scan_fetch_node", <<Top(held[w])>>,
                    [loc[w] EXCEPT !.target = BrChild(d, ScanBranchIndex(d, loc[w].op, loc[w].key)),
                                   !.lvl = @ + 1])
            /\ UNCHANGED snap
       ELSE Return(w, "Panic", FALSE, <<>>)
  /\ UNCHANGED written

\* the leaf a scan goes to when its index has left the leaf
ScanNeighbour(d, op) == IF op = "iter" THEN LeafNext(d) ELSE LeafPrev(d)

\* Iter::next lines 303-307 and IterRev::next lines 338-342: a record is
\* handed out
ScanYield(w) ==
  /\ pc[w] = "scan_next"
  /\ IsLeafPage(PageOf(pool, Top(held[w]).frame))
  /\ UNCHANGED <<disk, pool, pool_lock, disk_lock, nops, snap>>
  /\ \E d \in {NodeBody(PageOf(pool, Top(held[w]).frame))} :
       /\ IF loc[w].op = "iter" THEN loc[w].index < LeafNumRecords(d)
          ELSE loc[w].index >= 0
       /\ Goto(w, "scan_next", held[w],
               [loc[w] EXCEPT !.bytes = @ \o LeafRecord(d, loc[w].index),
                              !.index = IF loc[w].op = "iter" THEN @ + 1 ELSE @ - 1])
  /\ UNCHANGED written

\* A next() that drops the guard of its leaf before it calls fetch_page.
ScanLeaveDrops(w) ==
  /\ pc[w] = "scan_next"
  /\ LET page == PageOf(pool, Top(held[w]).frame)
         d == NodeBody(page)
     IN
       IF ~IsLeafPage(page)
       THEN Return(w, "Panic", FALSE, <<>>) /\ UNCHANGED <<disk, pool, pool_lock, disk_lock, nops>>
       ELSE /\ IF loc[w].op = "iter" THEN ~(loc[w].index < LeafNumRecords(d))
               ELSE ~(loc[w].index >= 0)
            /\ IF ScanNeighbour(d, loc[w].op) = INVALID_PAGE_ID
               THEN /\ Return(w, "Ok", loc[w].bytes # <<>>, loc[w].bytes)
                    /\ UNCHANGED <<disk, pool, pool_lock, disk_lock, nops>>
               ELSE \E r \in {FetchPage(pool, disk, [held EXCEPT ![w] = <<>>],
                                        ScanNeighbour(d, loc[w].op), "none")} :
                      /\ PoolCall(w, r)
                      /\ IF r.res = "Ok"
                         THEN /\ Goto(w, "scan_lock_next",
                                      <<Handle(r.frame, "pin",
                                               ScanNeighbour(d, loc[w].op), 1)>>, loc[w])
                              /\ UNCHANGED snap
                         ELSE Return(w, r.res, FALSE, <<>>)
  /\ UNCHANGED written

\* Iter::next lines 309-313 and IterRev::next lines 344-346: the index has
\* left the leaf; fetch_page of the neighbour, or the scan ends with None.
\* try_into_leaf().ok().unwrap() panics on a page that is no leaf.
ScanLeave(w) ==
  /\ pc[w] = "scan_next"
  /\ LET page == PageOf(pool, Top(held[w]).frame)
         d == NodeBody(page)
     IN
       IF ~IsLeafPage(page)
       THEN Return(w, "Panic", FALSE, <<>>) /\ UNCHANGED <<disk, pool, pool_lock, disk_lock, nops>>
       ELSE /\ IF loc[w].op = "iter" THEN ~(loc[w].index < LeafNumRecords(d))
               ELSE ~(loc[w].index >= 0)
            /\ IF ScanNeighbour(d, loc[w].op) = INVALID_PAGE_ID
               THEN /\ Return(w, "Ok", loc[w].bytes # <<>>, loc[w].bytes)
                    /\ UNCHANGED <<disk, pool, pool_lock, disk_lock, nops>>
               ELSE FetchStep(w, ScanNeighbour(d, loc[w].op), 1, "scan_lock_next")
  /\ UNCHANGED written

\* .read_owned() of lines 310 and 346; self.buffer is assigned, which drops
\* the guard of the leaf left behind; lines 313 and 347-349: the index
ScanLockNext(w) ==
  /\ pc[w] = "scan_lock_next"
  /\ CanRead(held, Top(held[w]).frame)
  /\ UNCHANGED <<disk, pool, pool_lock, disk_lock, snap, nops>>
  /\ \E page \in {PageOf(pool, Top(held[w]).frame)} :
       IF loc[w].op = "iter_rev" /\ ~IsLeafPage(page)
       THEN Return(w, "Panic", FALSE, <<>>)
       ELSE Goto(w, "scan_next", <<[Top(held[w]) EXCEPT !.mode = "r"]>>,
                 [loc[w] EXCEPT !.index = IF loc[w].op = "iter" THEN 0
                                          ELSE LeafNumRecords(NodeBody(page)) - 1])
  /\ UNCHANGED written

ScanStep(w) ==
  \/ ScanFetchMeta(w)
  \/ ScanLockMeta(w)
  \/ ScanFetchNode(w)
  \/ ScanLockNode(w)
  \/ ScanNode(w)
  \/ ScanYield(w)
  \/ ScanLeave(w)
  \/ ScanLockNext(w)

\* One worker runs puts as in Spec and then scans, in either direction, from
\* None or from any key.
MaxScans == 1

Scan ==
  \E op \in ScanOps : \E k \in {NoKey} \cup Keys :
    nops.get < MaxScans /\ StartScan(1, op, k)

NextScan == PutFresh \/ PutAgain \/ Scan \/ PutStep(1) \/ ScanStep(1)

SpecScan == Init /\ [][NextScan]_vars

\* the transcript of the stored records with keys in ks, ascending or descending
RECURSIVE Transcript(_, _)
Transcript(ks, op) ==
  IF ks = {} THEN <<>>
  ELSE LET Pick(k) == KeyOf(k) \o ValueOf(stored[k]) \o Transcript(ks \ {k}, op)
       IN Pick(IF op = "iter" THEN CHOOSE k \in ks : \A j \in ks : k <= j
               ELSE CHOOSE k \in ks : \A j \in ks : k >= j)

StoredKeys == {k \in Keys : stored[k] # NoValue}

\* C12: once the puts are done, iter(None) hands out every stored key once,
\* ascending, and iter_rev(None) every stored key once, descending, each with
\* the value last put.
C12_ScanTotal ==
  \A w \in Workers :
    (last[w].op \in ScanOps /\ last[w].key = NoKey /\ last[w].res # "none")
      => /\ last[w].res = "Ok"
         /\ last[w].bytes = Transcript(StoredKeys, last[w].op)

\* C13: iter(Some(k)) hands out the stored keys >= k, ascending from the
\* smallest of them, and iter_rev(Some(k)) the stored keys <= k, descending
\* from the largest of them, whether or not k is stored.
C13_ScanFrom ==
  \A w \in Workers :
    (last[w].op \in ScanOps /\ last[w].key # NoKey /\ last[w].res # "none")
      => /\ last[w].res = "Ok"
         /\ last[w].bytes =
              Transcript({k \in StoredKeys : IF last[w].op = "iter" THEN k >= last[w].key
                                             ELSE k <= last[w].key},
                         last[w].op)

\* ------------------------------------------------------------------------
\* One worker runs puts as in Spec and calls flush between them, so that no
\* operation is under way while flush runs.

Flush == StartFlush(1)

NextFlush == PutFresh \/ PutAgain \/ Flush \/ PutStep(1) \/ FlushStep(1)

SpecFlush == Init /\ [][NextFlush]_vars

\* C16: when flush returns Ok with no operation under way, the data file
\* holds, for every page written so far, the bytes last written to it
\* through a write guard, whether or not the page is still in the pool.
C16_FlushDurable ==
  [][\A w \in Workers :
       (pc[w] = "flush_iter" /\ pc'[w] = "idle" /\ last'[w].res = "Ok"
          /\ \A v \in Workers : pc'[v] = "idle")
         => \A i \in 1..MaxPages :
              written'[i] # <<>>
                => /\ ReadPageOk(disk', i - 1)
                   /\ ReadPageData(disk', i - 1) = written'[i]]_vars

\* ------------------------------------------------------------------------
\* One worker runs puts as in Spec and then puts one stored key once more
\* with the value it already has.

MaxTwice == 1

TwiceFresh == nops.twice = 0 /\ PutFresh

TwiceAgain == nops.twice = 0 /\ PutAgain

PutSame ==
  \E k \in Keys :
    /\ ~Fresh(k)
    /\ nops.twice < MaxTwice
    /\ pc[1] = "idle"
    /\ nops' = [nops EXCEPT !.twice = @ + 1]
    /\ pc' = [pc EXCEPT ![1] = "put_fetch_meta"]
    /\ loc' = [loc EXCEPT ![1] = [IdleLoc EXCEPT !.op = "put", !.key = k,
                                                 !.value = stored[k]]]
    /\ last' = [last EXCEPT ![1] = NoLast]
    /\ UNCHANGED <<disk, pool, pool_lock, disk_lock, held, stored, snap, written>>

NextTwice == TwiceFresh \/ TwiceAgain \/ PutSame \/ PutStep(1)

SpecTwice == Init /\ [][NextTwice]_vars

\* what a scan reads of a page: its records and the leaf that follows it
PageRecords(page) ==
  IF page = <<>> \/ ~IsLeafPage(page) THEN <<>>
  ELSE <<LeafNext(NodeBody(page))>> \o LeafRecords(NodeBody(page))

\* C18: a put of a stored key with the value it already has changes no
\* record and makes no new leaf, so that iter(None) hands out what it did
\* before.  (snap[w] holds the pages as they were when the put began.)
C18_PutTwice ==
  [][\A w \in Workers :
       (/\ pc[w] # "idle" /\ pc'[w] = "idle"
        /\ loc[w].op = "put"
        /\ stored[loc[w].key] = loc[w].value)
         => /\ last'[w].res = "Ok"
            /\ \A i \in 1..MaxPages :
                 PageRecords(LogicalPages(pool', disk')[i]) = PageRecords(snap[w][i])]_vars

\* ------------------------------------------------------------------------
\* One worker runs puts as in Spec and then one read: a get, or a scan in
\* either direction from None or from any key.

NextRead ==
  PutFresh \/ PutAgain \/ Get \/ Scan \/ PutStep(1) \/ GetStep(1) \/ ScanStep(1)

SpecRead == Init /\ [][NextRead]_vars

\* the shared latches worker w holds
ReadLatches(w) == {i \in 1..Len(held[w]) : held[w][i].mode = "r"}

\* the next statement of worker w is a read_owned()
AtReadOwned(w) ==
  pc[w] \in {"get_lock_meta", "get_lock_node", "scan_lock_meta", "scan_lock_node",
             "scan_lock_next"}

\* C25: in get, iter, iter_rev and next() a worker holds at most two shared
\* latches, the one it is about to take counted, and no exclusive one.
C25_TwoReadLatches ==
  \A w \in Workers :
    loc[w].op \in {"get", "iter", "iter_rev"}
      => /\ Cardinality(ReadLatches(w)) + (IF AtReadOwned(w) THEN 1 ELSE 0) <= 2
         /\ \A i \in 1..Len(held[w]) : held[w][i].mode # "w"

\* C25: a get that holds the latch of a branch and is about to take that of
\* its child
C25_Witness ==
  /\ pc[1] = "get_lock_node"
  /\ loc[1].lvl >= 2
  /\ Cardinality(ReadLatches(1)) = 1

\* C30 as it was claimed: a forward iterator holds no latch when it pins and
\* latches the next leaf.
C30_ReleasedFirst ==
  \A w \in Workers :
    (loc[w].op = "iter" /\ pc[w] = "scan_lock_next") => ReadLatches(w) = {}

\* C30: a forward iterator that has handed out the records of its leaf pins
\* and latches the leaf named by next_page_id while it still holds the
\* latch of the leaf it leaves, and lets that go when it has the new one;
\* between two leaves it holds that one latch, within a leaf one latch; it
\* returns None only at a leaf whose next_page_id is INVALID, its records
\* handed out.
C30_HandOver ==
  [][\A w \in Workers :
       loc'[w].op = "iter" =>
         /\ pc'[w] = "scan_lock_next"
              => /\ Len(held'[w]) = 2
                 /\ held'[w][1].mode = "r" /\ held'[w][2].mode = "pin"
                 /\ held'[w][2].page_id
                      = LeafNext(NodeBody(PageOf(pool', held'[w][1].frame)))
         /\ pc'[w] = "scan_next"
              => Len(held'[w]) = 1 /\ held'[w][1].mode = "r"
         /\ (pc[w] = "scan_next" /\ pc'[w] = "idle" /\ last'[w].res = "Ok")
              => /\ LeafNext(NodeBody(PageOf(pool, Top(held[w]).frame))) = INVALID_PAGE_ID
                 /\ loc[w].index >= LeafNumRecords(NodeBody(PageOf(pool, Top(held[w]).frame)))]_vars

\* C30: a forward iterator between two leaves
C30_Witness ==
  /\ pc[1] = "scan_lock_next"
  /\ loc[1].op = "iter"
  /\ loc[1].bytes # <<>>

\* the exclusive latches worker w holds
WriteLatches(w) == {i \in 1..Len(held[w]) : held[w][i].mode = "w"}

\* the page a put of key goes to from the page in frame f: the root from the
\* header page (btree.rs line 278), the child of branch.find(key) from a
\* branch (lines 246-247)
PutNextPage(f, lvl, key) ==
  IF lvl = 0 THEN RootPageId(PageOf(pool, f))
  ELSE BrChild(NodeBody(PageOf(pool, f)), BrFind(NodeBody(PageOf(pool, f)), key))

NThree == NWorkers + 1

ScanAfter == 6

InitThree ==
  /\ \E t \in {TreeCreated} : disk = t.disk /\ pool = t.pool
  /\ pool_lock = NoWorker
  /\ disk_lock = NoWorker
  /\ held = Fill(NThree, <<>>)
  /\ pc = Fill(NThree, "idle")
  /\ loc = Fill(NThree, IdleLoc)
  /\ last = Fill(NThree, NoLast)
  /\ stored = Fill(NKeys, NoValue)
  /\ snap = Fill(NThree, <<>>)
  /\ written = LogicalPages(pool, disk)
  /\ nops = [put |-> 0, get |-> 0, flush |-> 0, twice |-> 0]

ThreePut ==
  \E k \in Keys :
    /\ Fresh(k)
    /\ \A j \in 1..(k - 1) : ~Fresh(j)
    /\ nops.put < MaxPuts
    /\ StartPut(1, k, 1)

\* the readers have connected
ThreeReaders == Cardinality({k \in Keys : ~Fresh(k)}) >= ScanAfter

ThreeScan == ThreeReaders /\ last[2] = NoLast /\ StartScan(2, "iter", NoKey)

ThreeGet == ThreeReaders /\ last[NThree] = NoLast /\ StartGet(NThree, 1)

\* the steps of a put that splits no leaf with a right sibling
ThreePutStep ==
  \/ PutFetchMeta(1)
  \/ PutLockMeta(1)
  \/ PutFetchNode(1)
  \/ PutLockNode(1)
  \/ PutCreateLeaf(1)
  \/ PutLockNewLeaf(1)
  \/ PutReturn(1)
  \/ PutCreateBranch(1)
  \/ PutLockNewBranch(1)
  \/ PutCreateRoot(1)
  \/ PutLockNewRoot(1)

NextThree ==
  ThreePut \/ ThreeScan \/ ThreeGet \/ ThreePutStep \/ ScanStep(2) \/ GetStep(NThree)

SpecThree == InitThree /\ [][NextThree]_vars

\* What get and iter(None) read of the tree whose pages are `pages` (page id
\* p at pages[p + 1], <<>> for a page that cannot be read), when they run
\* alone.

PageIn(pages, page_id) ==
  IF page_id \in 0..(Len(pages) - 1) THEN pages[page_id + 1] ELSE <<>>

\* get(key): the descent of get_internal from page_id, at most fuel levels
RECURSIVE GetIn(_, _, _, _)
GetIn(pages, page_id, key, fuel) ==
  LET page == PageIn(pages, page_id)
  IN IF fuel = 0 \/ page = <<>> THEN [found |-> FALSE, value |-> <<>>]
     ELSE IF IsLeafPage(page) THEN LeafGet(NodeBody(page), key)
     ELSE IF ~IsBranchPage(page) \/ BrFindPanics(NodeBody(page))
     THEN [found |-> FALSE, value |-> <<>>]
     ELSE GetIn(pages, BrChild(NodeBody(page), BrFind(NodeBody(page), key)), key, fuel - 1)

\* iter(None): the leaf under pair 0 of every branch
RECURSIVE FirstLeafIn(_, _, _)
FirstLeafIn(pages, page_id, fuel) ==
  LET page == PageIn(pages, page_id)
  IN IF fuel = 0 \/ page = <<>> THEN INVALID_PAGE_ID
     ELSE IF IsLeafPage(page) THEN page_id
     ELSE FirstLeafIn(pages, BrChild(NodeBody(page), 0), fuel - 1)

\* next() until None: the records of the leaves along next_page_id
RECURSIVE ChainIn(_, _, _)
ChainIn(pages, page_id, fuel) ==
  LET page == PageIn(pages, page_id)
  IN IF fuel = 0 \/ page = <<>> \/ ~IsLeafPage(page) THEN <<>>
     ELSE LeafRecords(NodeBody(page))
            \o ChainIn(pages, LeafNext(NodeBody(page)), fuel - 1)

ContentsIn(pages) ==
  LET root == RootPageId(PageIn(pages, TreePageId))
  IN [get |-> [k \in Keys |-> GetIn(pages, root, KeyOf(k), MaxDepth)],
      iter |-> ChainIn(pages, FirstLeafIn(pages, root, MaxDepth), MaxPages)]

FullBranchesIn(pages) ==
  {p \in 1..Len(pages) :
     /\ pages[p] # <<>>
     /\ IsBranchPage(pages[p])
     /\ BrNumPairs(NodeBody(pages[p])) >= BrMaxPairs(NodeBody(pages[p]))}

\* C36: when a put returns Err(NoFreeBuffer), get returns for every key what
\* it returned when the put began, iter(None) hands out the same records,
\* and no branch is left with num_pairs >= max_pairs.  (snap[w] holds the
\* pages as they were when the put began.)
C36_NoFreeBufferKeeps ==
  [][\A w \in Workers :
       (/\ loc[w].op = "put"
        /\ snap[w] # <<>>
        /\ pc'[w] = "idle"
        /\ last'[w].res = "NoFreeBuffer")
         => /\ ContentsIn(LogicalPages(pool', disk')) = ContentsIn(snap[w])
            /\ FullBranchesIn(LogicalPages(pool', disk')) = {}]_vars

\* ------------------------------------------------------------------------
\* Two workers on the one tree: worker 1 puts the keys from the highest
\* down, so that every put lands in the first leaf, whose right sibling
\* exists after the first split; worker 2 runs gets and flushes.

ConcPut ==
  \E k \in Keys :
    /\ Fresh(k)
    /\ \A j \in (k + 1)..NKeys : ~Fresh(j)
    /\ nops.put < MaxPuts
    /\ StartPut(1, k, 1)

ConcGet == \E k \in Keys : nops.get < MaxGets /\ StartGet(2, k)

ConcFlush == StartFlush(2)

NextConc == ConcPut \/ ConcGet \/ ConcFlush \/ PutStep(1) \/ GetStep(2) \/ FlushStep(2)

SpecConc == Init /\ [][NextConc]_vars

\* The workers whose release worker w is waiting for: the holder of the pool
\* mutex before a call of fetch_page or create_page, the holders of the
\* latch before write_owned, read_owned or the write() of flush.
LatchHolders(f, modes) ==
  {v \in Workers : \E i \in 1..Len(held[v]) :
     held[v][i].frame = f /\ held[v][i].mode \in modes}

WaitsOn(w) ==
  IF pc[w] \in {"put_fetch_meta", "put_fetch_node", "put_fetch_next", "put_create_leaf",
                "put_create_branch", "put_create_root", "get_fetch_meta", "get_fetch_node"}
  THEN IF pool_lock = NoWorker THEN {} ELSE {pool_lock}
  ELSE IF pc[w] \in {"put_lock_meta", "put_lock_node", "put_lock_new_leaf",
                     "put_lock_new_branch", "put_lock_new_root"}
  THEN LatchHolders(Top(held[w]).frame, {"r", "w"})
  ELSE IF pc[w] \in {"get_lock_meta", "get_lock_node"}
  THEN LatchHolders(Top(held[w]).frame, {"w"})
  ELSE IF pc[w] = "flush_iter" /\ loc[w].cur # INVALID_PAGE_ID
  THEN LatchHolders(PtGet(pool.page_table, loc[w].cur), {"r", "w"})
  ELSE {}

\* the next statement of worker w takes a page latch: write_owned or
\* read_owned in the tree, the write() of flush (buffer.rs line 154)
LatchCall(w) ==
  \/ pc[w] \in {"put_lock_meta", "put_lock_node", "put_lock_new_leaf",
                "put_lock_new_branch", "put_lock_new_root",
                "get_lock_meta", "get_lock_node"}
  \/ pc[w] = "flush_iter" /\ loc[w].todo # {}

\* C23: no worker takes, or waits for, a page latch while it holds the pool
\* mutex.
C23_NoLatchUnderPool == \A w \in Workers : LatchCall(w) => pool_lock # w

\* C2: with puts and gets only (no flush was called), a get that began when
\* a put of its key had returned Ok, and that returns Ok, finds the key and
\* yields the value stored at its start or the one stored at its return.
C2_GetSeesPut ==
  \A w \in Workers :
    (nops.flush = 0 /\ last[w].op = "get" /\ last[w].value # NoValue
       /\ last[w].res = "Ok") =>
      /\ last[w].found
      /\ \/ last[w].bytes = ValueOf(last[w].value)
         \/ last[w].bytes = ValueOf(stored[last[w].key])

\* C3: there is no set of workers each waiting for a mutex or a latch that
\* a worker of the set holds.
C3_NoWaitCycle ==
  ~ \E S \in SUBSET Workers :
      /\ S # {}
      /\ \A w \in S : WaitsOn(w) \cap S # {}

\* ------------------------------------------------------------------------
\* A tree one level deeper.  Worker 1 puts the keys from MaxRetryKeys down
\* and puts a key again after Error::Deadlock; worker 2 runs gets of stored
\* keys and a flush, and moves only between the puts of worker 1, so that
\* from its start to its return a put runs alone (a get stays where it is,
\* latch held).

MaxRetryKeys == 8

MaxRetryPuts == 9

MaxRetryGets == 2

InitRetry ==
  /\ \E t \in {TreeCreated} : disk = t.disk /\ pool = t.pool
  /\ pool_lock = NoWorker
  /\ disk_lock = NoWorker
  /\ held = NoHandles
  /\ pc = Fill(NWorkers, "idle")
  /\ loc = Fill(NWorkers, IdleLoc)
  /\ last = Fill(NWorkers, NoLast)
  /\ stored = Fill(MaxRetryKeys, NoValue)
  /\ snap = Fill(NWorkers, <<>>)
  /\ written = LogicalPages(pool, disk)
  /\ nops = [put |-> 0, get |-> 0, flush |-> 0, twice |-> 0]

\* worker 1 is between two puts
PutIdle == pc[1] = "idle"

RetryPut ==
  \E k \in 1..MaxRetryKeys :
    /\ Fresh(k)
    /\ \A j \in (k + 1)..MaxRetryKeys : ~Fresh(j)
    /\ nops.put < MaxRetryPuts
    /\ StartPut(1, k, 1)

RetryGet ==
  \E k \in 1..MaxRetryKeys :
    PutIdle /\ ~Fresh(k) /\ nops.get < MaxRetryGets /\ StartGet(2, k)

RetryFlush == PutIdle /\ StartFlush(2)

RetryGetStep == PutIdle /\ GetStep(2)

RetryFlushStep == PutIdle /\ FlushStep(2)

NextRetry ==
  RetryPut \/ RetryGet \/ RetryFlush \/ PutStep(1) \/ RetryGetStep \/ RetryFlushStep

SpecRetry == InitRetry /\ [][NextRetry]_vars

\* C4: the step in which a put returns Error::Deadlock leaves every page as
\* it was when the put took the latch of the tree header.
C4_DeadlockLeavesPages ==
  [][\A w \in Workers :
       (last'[w].res = "Deadlock" /\ last[w].res # "Deadlock") =>
         LogicalPages(pool', disk') = snap[w]]_vars

\* ------------------------------------------------------------------------
\* The buffer pool on its own, as buffer.rs tests::test drives it: the
\* workers call fetch_page, create_page and flush on a new file, keep the
\* buffers handed out, write whole pages under the write latch with
\* is_dirty set, and drop buffers.  A call of fetch_page or create_page is
\* one step, as it runs under the pool mutex.

MaxPoolSize == 2

MaxPoolPages == 3

MaxUsage == 2

MaxHandles == 2

WriteBytes == 1..1

InitPool ==
  /\ \E pool_size \in 1..MaxPoolSize : pool = BufferPoolNew(pool_size)
  /\ disk = DiskNew(<<>>)
  /\ pool_lock = NoWorker
  /\ disk_lock = NoWorker
  /\ held = NoHandles
  /\ pc = Fill(NWorkers, "idle")
  /\ loc = Fill(NWorkers, IdleLoc)
  /\ last = Fill(NWorkers, NoLast)
  /\ stored = Fill(NKeys, NoValue)
  /\ snap = Fill(NWorkers, <<>>)
  /\ written = Fill(MaxPages, NoWrite)
  /\ nops = [put |-> 0, get |-> 0, flush |-> 0, twice |-> 0]

\* every frame's buffer has a handle outside the pool
AllPinned(p, h) == \A f \in 0..(Len(p.buffers) - 1) : PinCount(h, f) > 0

\* what the last call of worker w was and gave: the page asked for (key),
\* the byte last written to it (value), whether every frame was pinned when
\* the call was made (found), and the page handed out (bytes)
PoolReturn(w, op, page_id, r) ==
  last' = [last EXCEPT ![w] =
    [op |-> op, key |-> page_id,
     value |-> IF page_id = INVALID_PAGE_ID THEN NoWrite ELSE written[page_id + 1],
     res |-> r.res, found |-> AllPinned(pool, held),
     bytes |-> IF r.res = "Ok" THEN PageOf(r.pool, r.frame) ELSE <<>>]]

\* fetch_page(page_id), of a page of the file or of one past its end
RawFetch(w, page_id) ==
  /\ pc[w] = "idle"
  /\ pool_lock = NoWorker
  /\ Len(held[w]) < MaxHandles
  /\ \E r \in {FetchPage(pool, disk, held, page_id, "none")} :
       /\ \A i \in 1..Len(r.pool.buffers) : r.pool.buffers[i].usage_count <= MaxUsage
       /\ pool' = r.pool
       /\ disk' = r.disk
       /\ held' = IF r.res = "Ok"
                  THEN [held EXCEPT ![w] = Append(@, Handle(r.frame, "pin", page_id, 0))]
                  ELSE held
       /\ PoolReturn(w, IF PtGet(pool.page_table, page_id) # NoFrame
                        THEN "fetch_hit" ELSE "fetch", page_id, r)
  /\ UNCHANGED <<pool_lock, disk_lock, pc, loc, stored, snap, written, nops>>

\* create_page()
RawCreate(w) ==
  /\ pc[w] = "idle"
  /\ pool_lock = NoWorker
  /\ Len(held[w]) < MaxHandles
  /\ disk.next_page_id < MaxPoolPages
  /\ \E r \in {CreatePage(pool, disk, held, "none")} :
       /\ pool' = r.pool
       /\ disk' = r.disk
       /\ held' = IF r.res = "Ok"
                  THEN [held EXCEPT ![w] = Append(@, Handle(r.frame, "pin", r.page_id, 0))]
                  ELSE held
       /\ written' = IF r.res = "Ok" THEN [written EXCEPT ![r.page_id + 1] = 0]
                     ELSE written
       /\ PoolReturn(w, "create", r.page_id, r)
  /\ UNCHANGED <<pool_lock, disk_lock, pc, loc, stored, snap, nops>>

\* buffer.write(): the page is filled with b and is_dirty is set
\* (tests::test lines 177-179)
RawWrite(w, i, b) ==
  /\ pc[w] = "idle"
  /\ i \in 1..Len(held[w])
  /\ CanWrite(held, held[w][i].frame)
  /\ PageOf(pool, held[w][i].frame) # Fill(PageSize, b)
  /\ pool' = SetDirty(SetPage(pool, held[w][i].frame, Fill(PageSize, b)),
                      held[w][i].frame)
  /\ written' = [written EXCEPT ![held[w][i].page_id + 1] = b]
  /\ UNCHANGED <<disk, pool_lock, disk_lock, held, pc, loc, last, stored, snap, nops>>

\* drop(buffer)
RawDrop(w, i) ==
  /\ pc[w] = "idle"
  /\ i \in 1..Len(held[w])
  /\ held' = [held EXCEPT ![w] = SubSeq(@, 1, i - 1) \o SubSeq(@, i + 1, Len(@))]
  /\ UNCHANGED <<disk, pool, pool_lock, disk_lock, pc, loc, last, stored, snap, written, nops>>

\* Worker 1 takes, writes and drops buffers; worker 2 calls flush().
PoolFetch == \E page_id \in 0..(MaxPoolPages - 1) : RawFetch(1, page_id)

PoolCreate == RawCreate(1)

PoolWrite == \E i \in 1..MaxHandles : \E b \in WriteBytes : RawWrite(1, i, b)

PoolDrop == \E i \in 1..MaxHandles : RawDrop(1, i)

PoolFlush == StartFlush(2) \/ FlushStep(2)

NextPool == PoolFetch \/ PoolCreate \/ PoolWrite \/ PoolDrop \/ PoolFlush

SpecPool == InitPool /\ [][NextPool]_vars

Frames == 0..(Len(pool.buffers) - 1)

FrameOf(f) == pool.buffers[f + 1]

\* C5: no two frames hold the same PageId of a page of the file (one that
\* create_page returned), and every page_table entry p -> f has
\* frames[f].page_id = p.
C5_OnePagePerFrame ==
  /\ \A f \in Frames : \A g \in Frames :
       (f # g /\ FrameOf(f).page_id \in 0..(disk.next_page_id - 1)) =>
         FrameOf(f).page_id # FrameOf(g).page_id
  /\ \A p \in 0..(MaxPages - 1) :
       PtGet(pool.page_table, p) # NoFrame =>
         FrameOf(PtGet(pool.page_table, p)).page_id = p

\* C6: a frame whose buffer has a handle outside the pool has
\* usage_count >= 1, and no call of fetch_page or create_page fails in
\* Arc::get_mut(..).unwrap().
C6_PinnedInUse ==
  /\ \A f \in Frames : PinCount(held, f) > 0 => FrameOf(f).usage_count >= 1
  /\ \A w \in Workers : last[w].res # "Panic"

\* C6: a call that had to evict returned a buffer while another frame stayed
\* pinned
C6_Witness ==
  /\ last[1].op \in {"fetch", "create"}
  /\ last[1].res = "Ok"
  /\ Len(held[1]) = 2
  /\ held[1][1].frame # held[1][2].frame

\* C7: fetch_page of a page that create_page returned does not fail on I/O,
\* and the buffer it returns holds the bytes last written to the page.
C7_NoLostUpdate ==
  \A w \in Workers :
    (last[w].op \in {"fetch", "fetch_hit"} /\ last[w].value # NoWrite) =>
      /\ last[w].res \in {"Ok", "NoFreeBuffer"}
      /\ last[w].res = "Ok" => last[w].bytes = Fill(PageSize, last[w].value)

\* C8: the sweep of evict ends, and a call that has to evict returns
\* NoFreeBuffer exactly when every frame was pinned at the call.
C8_NoFreeBufferIffAllPinned ==
  /\ ~Evict(pool, held).diverged
  /\ \A w \in Workers :
       last[w].op \in {"fetch", "create"} =>
         ((last[w].res = "NoFreeBuffer") <=> last[w].found)

\* C8: a call made with every frame pinned returned NoFreeBuffer
C8_Witness ==
  /\ last[1].op \in {"fetch", "create"}
  /\ last[1].res = "NoFreeBuffer"
  /\ last[1].found

\* ------------------------------------------------------------------------
\* Two putting workers: workers 1 and 2 put the keys from the highest down
\* on the one tree, worker 3 runs get and flush.  Here the guard rw_buffer
\* of flush (buffer.rs line 153) is a handle of its own: flush holds the
\* write latch of a frame from frame.buffer.write() to the end of the
\* iteration of its loop, over write_page_data.

PutKeys == 4

PutWorkers == 1..2

InFlight(k) == \E w \in PutWorkers : loc[w].op = "put" /\ loc[w].key = k

PutsPut ==
  \E w \in PutWorkers : \E k \in (NKeys - PutKeys + 1)..NKeys :
    /\ Fresh(k) /\ ~InFlight(k)
    /\ \A j \in (k + 1)..NKeys : ~Fresh(j) \/ InFlight(j)
    /\ nops.put < MaxPuts
    /\ StartPut(w, k, 1)

PutsGet == \E k \in Keys : ~Fresh(k) /\ nops.get < MaxGets /\ StartGet(NThree, k)

PutsFlush == StartFlush(NThree)

\* line 153: frame.buffer.write() of one more entry of page_table
FlushLatch(w) ==
  /\ pc[w] = "flush_iter"
  /\ \E page_id \in loc[w].todo :
       /\ loc[w].cur \in {INVALID_PAGE_ID, page_id}
       /\ LET f == PtGet(pool.page_table, page_id)
          IN IF CanWrite(held, f)
             THEN /\ held' = [held EXCEPT ![w] = <<Handle(f, "w", page_id, 0)>>]
                  /\ pc' = [pc EXCEPT ![w] = "flush_write"]
                  /\ loc' = [loc EXCEPT ![w].cur = page_id]
             ELSE /\ loc[w].cur = INVALID_PAGE_ID
                  /\ loc' = [loc EXCEPT ![w].cur = page_id]
                  /\ UNCHANGED <<held, pc>>
  /\ UNCHANGED <<disk, pool, pool_lock, disk_lock, last, stored, snap, written, nops>>

\* lines 154-156: write_page_data, is_dirty = false, and rw_buffer is dropped
FlushWrite(w) ==
  /\ pc[w] = "flush_write"
  /\ LET f == Top(held[w]).frame
     IN /\ disk' = WritePageData(disk, loc[w].cur, PageOf(pool, f))
        /\ pool' = [pool EXCEPT !.buffers[f + 1].is_dirty = FALSE]
  /\ held' = [held EXCEPT ![w] = <<>>]
  /\ pc' = [pc EXCEPT ![w] = "flush_iter"]
  /\ loc' = [loc EXCEPT ![w].todo = @ \ {loc[w].cur}, ![w].cur = INVALID_PAGE_ID]
  /\ UNCHANGED <<pool_lock, disk_lock, last, stored, snap, written, nops>>

PutsFlushStep == FlushLatch(NThree) \/ FlushWrite(NThree) \/ FlushDone(NThree)

\* the steps of a put under which the root stays a leaf or a branch with room
PutsPutStep ==
  \E w \in PutWorkers :
    \/ PutFetchMeta(w)
    \/ PutLockMeta(w)
    \/ PutFetchNode(w)
    \/ PutLockNode(w)
    \/ PutFetchNext(w)
    \/ PutTryNext(w)
    \/ PutCreateLeaf(w)
    \/ PutLockNewLeaf(w)
    \/ PutReturn(w)
    \/ PutCreateRoot(w)
    \/ PutLockNewRoot(w)

NextPuts ==
  PutsPut \/ PutsGet \/ PutsFlush \/ PutsPutStep \/ GetStep(NThree) \/ PutsFlushStep

SpecPuts == InitThree /\ [][NextPuts]_vars

\* a put past write_owned() on the header holds the header's write latch
HeaderLatched ==
  \A w \in PutWorkers :
    (loc[w].op = "put" /\ pc[w] \notin {"idle", "put_fetch_meta", "put_lock_meta"}) =>
      \E i \in 1..Len(held[w]) :
        held[w][i].page_id = loc[w].btree_page_id /\ held[w][i].mode = "w"

HoldsWrite(w) == \E i \in 1..Len(held[w]) : held[w][i].mode = "w"

\* at most one put at a time holds write latches
OnePutWrites ==
  \A w \in PutWorkers : \A v \in PutWorkers :
    (w # v /\ HoldsWrite(w)) => ~HoldsWrite(v)

\* the step in which try_write_owned gives a put Error::Deadlock: the latch
\* of the next leaf is held by a worker that runs one of `ops`
DeadlockOnlyBy(ops) ==
  \A w \in PutWorkers :
    (pc[w] = "put_try_next" /\ pc'[w] = "idle" /\ last'[w].res = "Deadlock") =>
      \E v \in (1..Len(held)) \ {w} :
        /\ loc[v].op \in ops
        /\ \E i \in 1..Len(held[v]) :
             /\ held[v][i].frame = Top(held[w]).frame
             /\ held[v][i].mode \in {"r", "w"}

C38_ReaderWitness ==
  /\ last[1].res = "Deadlock"
  /\ pc[NThree] = "get_return"

\* ------------------------------------------------------------------------
\* A scan beside the puts: worker 1 calls put with the keys of BesideOrder
\* one after the other, a key that is stored with the second value, while
\* worker 2 runs one scan from None, in either direction, that may begin at
\* any time.  When the scan begins, snap[2] notes the value of every key.

BesideOrder == <<1, 7, 6, 5, 2, 7, 3>>

BesidePut ==
  \E i \in 1..Len(BesideOrder) :
    /\ i = nops.put + 1
    /\ StartPut(1, BesideOrder[i], IF Fresh(BesideOrder[i]) THEN 1 ELSE 2)

StartScanNoting(w, op, k) ==
  /\ pc[w] = "idle"
  /\ nops' = [nops EXCEPT !.get = @ + 1]
  /\ pc' = [pc EXCEPT ![w] = "scan_fetch_meta"]
  /\ loc' = [loc EXCEPT ![w] = [IdleLoc EXCEPT !.op = op, !.key = k]]
  /\ last' = [last EXCEPT ![w] = NoLast]
  /\ snap' = [snap EXCEPT ![w] = stored]
  /\ UNCHANGED <<disk, pool, pool_lock, disk_lock, held, stored, written>>

BesideScan ==
  \E op \in ScanOps : nops.get < MaxScans /\ StartScanNoting(2, op, NoKey)

NextBeside == BesidePut \/ BesideScan \/ PutsPutStep \/ ScanStep(2)

SpecBeside == Init /\ [][NextBeside]_vars

\* the key numbers of the records handed out, in the order of the next() calls
ScanKeys(bytes) ==
  LET n == Len(bytes) \div (8 + ValueLen)
  IN SubSeq([i \in 1..n |-> bytes[(i - 1) * (8 + ValueLen) + 8]], 1, n)

\* C40: a scan from None that ran beside puts and came to its end handed
\* out keys strictly ascending (iter) or descending (iter_rev), and every key
\* that was stored when the scan began, and was not put again, exactly
\* once; no next() panicked.
C40_ScanBesidePuts ==
  [][(loc[2].op \in ScanOps /\ pc[2] # "idle" /\ pc'[2] = "idle") =>
       /\ last'[2].res \in {"Ok", "NoFreeBuffer"}
       /\ last'[2].res = "Ok" =>
            LET ks == ScanKeys(last'[2].bytes)
            IN /\ \A i \in 1..(Len(ks) - 1) :
                    IF loc[2].op = "iter" THEN ks[i] < ks[i + 1] ELSE ks[i] > ks[i + 1]
               /\ \A k \in Keys :
                    (/\ snap[2][k] # NoValue
                     /\ stored[k] = snap[2][k]
                     /\ ~(loc[1].op = "put" /\ loc[1].key = k))
                      => Cardinality({i \in 1..Len(ks) : ks[i] = k}) = 1]_vars

\* ------------------------------------------------------------------------
\* The buffer pool with a disk whose writes and reads can fail: the calls of
\* SpecPool, and calls of fetch_page and create_page in which
\* write_page_data of the victim (lines 114, 135) or read_page_data of the
\* page asked for (line 118) returns an error.

IoFailures == {"write", "read"}

\* fetch_page(page_id) that returns Err(Error::Io)
FetchFails(w, page_id, fail) ==
  /\ pc[w] = "idle"
  /\ pool_lock = NoWorker
  /\ \E r \in {FetchPage(pool, disk, held, page_id, fail)} :
       /\ r.res = "Io"
       /\ pool' = r.pool
       /\ disk' = r.disk
       /\ PoolReturn(w, "fetch", page_id, r)
  /\ UNCHANGED <<pool_lock, disk_lock, held, pc, loc, stored, snap, written, nops>>

\* create_page() that returns Err(Error::Io)
CreateFails(w) ==
  /\ pc[w] = "idle"
  /\ pool_lock = NoWorker
  /\ disk.next_page_id < MaxPoolPages
  /\ \E r \in {CreatePage(pool, disk, held, "write")} :
       /\ r.res = "Io"
       /\ pool' = r.pool
       /\ disk' = r.disk
       /\ PoolReturn(w, "create", INVALID_PAGE_ID, r)
  /\ UNCHANGED <<pool_lock, disk_lock, held, pc, loc, stored, snap, written, nops>>

IoFetch ==
  \E page_id \in 0..(MaxPoolPages - 1) : \E fail \in IoFailures :
    FetchFails(1, page_id, fail)

IoCreate == CreateFails(1)

NextIo == PoolFetch \/ PoolCreate \/ PoolWrite \/ PoolDrop \/ IoFetch \/ IoCreate

SpecIo == InitPool /\ [][NextIo]_vars

\* every page_table entry p -> f has frames[f].page_id = p
TableToFrame ==
  \A p \in 0..(MaxPages - 1) :
    PtGet(pool.page_table, p) # NoFrame =>
      FrameOf(PtGet(pool.page_table, p)).page_id = p

\* every frame that holds a page is the frame of that page in page_table
FrameToTable ==
  \A f \in Frames :
    FrameOf(f).page_id # INVALID_PAGE_ID =>
      PtGet(pool.page_table, FrameOf(f).page_id) = f

\* fetch_page of a page that was created, if it returns a buffer, returns
\* the bytes last written to the page
FetchGivesLatest ==
  \A p \in 0..(MaxPoolPages - 1) :
    written[p + 1] # NoWrite =>
      LET r == FetchPage(pool, disk, held, p, "none")
      IN r.res \in {"Ok", "NoFreeBuffer"}
         /\ (r.res = "Ok" => PageOf(r.pool, r.frame) = Fill(PageSize, written[p + 1]))

\* C37: whatever calls of fetch_page and create_page returned an I/O error,
\* a later fetch_page of a page finds its latest contents, no page_table
\* entry points to a frame that holds another page, and no frame keeps a
\* page id that page_table does not have.
C37_ConsistentAfterIoError ==
  TableToFrame /\ FrameToTable /\ FetchGivesLatest

\* ------------------------------------------------------------------------
\* buffer.rs: the two mutexes of BufferPoolManager, one action per lock()
\* and per release.  Both workers call fetch_page, create_page and flush and
\* drop the buffers they got; a call is at "mx_pool" before
\* self.pool.lock(), at "mx_disk" before self.disk.lock(), at "mx_io" with
\* both held and at "mx_table" after the block that holds locked_disk.

MaxMutexCalls == 4

MutexOps == {"fetch_page", "create_page", "flush"}

MutexCall ==
  \E w \in Workers : \E op \in MutexOps : \E page_id \in 0..(MaxPoolPages - 1) :
    /\ pc[w] = "idle"
    /\ nops.put < MaxMutexCalls
    /\ op # "fetch_page" => page_id = 0
    /\ op = "create_page" => disk.next_page_id < MaxPoolPages
    /\ nops' = [nops EXCEPT !.put = @ + 1]
    /\ pc' = [pc EXCEPT ![w] = "mx_pool"]
    /\ loc' = [loc EXCEPT ![w] = [IdleLoc EXCEPT !.op = op, !.target = page_id]]
    /\ last' = [last EXCEPT ![w] = NoLast]
    /\ UNCHANGED <<disk, pool, pool_lock, disk_lock, held, stored, snap, written>>

\* what the call of worker w gives in the pool and on the disk as they are
MutexResult(w) ==
  IF loc[w].op = "fetch_page"
  THEN FetchPage(pool, disk, held, loc[w].target, "none")
  ELSE CreatePage(pool, disk, held, "none")

\* the call goes on to self.disk.lock(): flush always (line 151),
\* fetch_page and create_page once evict gave a frame nobody else holds
\* (lines 109-113, 129-133)
MutexReachesDisk(w) ==
  \/ loc[w].op = "flush"
  \/ /\ ~(loc[w].op = "fetch_page" /\ PtGet(pool.page_table, loc[w].target) # NoFrame)
     /\ MutexResult(w).res \notin {"NoFreeBuffer", "Panic"}

\* the call returns r to worker w
MutexReturn(w, r) ==
  /\ pool' = r.pool
  /\ disk' = r.disk
  /\ held' = IF r.res = "Ok"
             THEN [held EXCEPT ![w] = Append(@, Handle(r.frame, "pin", r.page_id, 0))]
             ELSE held
  /\ PoolReturn(w, loc[w].op, r.page_id, r)
  /\ pc' = [pc EXCEPT ![w] = "idle"]
  /\ loc' = [loc EXCEPT ![w] = IdleLoc]

\* lines 103, 128, 150: self.pool.lock(), and on to the next lock() or, on a
\* hit and on NoFreeBuffer, to the return that drops locked_pool
MutexLockPool(w) ==
  /\ pc[w] = "mx_pool"
  /\ pool_lock = NoWorker
  /\ IF MutexReachesDisk(w)
     THEN /\ pool_lock' = w
          /\ pc' = [pc EXCEPT ![w] = "mx_disk"]
          /\ UNCHANGED <<disk, pool, held, loc, last>>
     ELSE /\ MutexReturn(w, MutexResult(w))
          /\ UNCHANGED pool_lock
  /\ UNCHANGED <<disk_lock, stored, snap, written, nops>>

\* lines 113, 133, 151: self.disk.lock()
MutexLockDisk(w) ==
  /\ pc[w] = "mx_disk"
  /\ disk_lock = NoWorker
  /\ disk_lock' = w
  /\ pc' = [pc EXCEPT ![w] = IF loc[w].op = "flush" THEN "flush_iter" ELSE "mx_io"]
  /\ loc' = [loc EXCEPT ![w].todo = IF loc[w].op = "flush"
                                    THEN PagesIn(pool.page_table, 1) ELSE {}]
  /\ UNCHANGED <<disk, pool, pool_lock, held, last, stored, snap, written, nops>>

\* A block that lets go of locked_pool and keeps locked_disk.
MutexIoKeepsDisk(w) ==
  /\ pc[w] = "mx_io"
  /\ pool_lock' = NoWorker
  /\ pc' = [pc EXCEPT ![w] = "mx_table"]
  /\ UNCHANGED <<disk, pool, disk_lock, held, loc, last, stored, snap, written, nops>>

\* lines 114-120, 134-141: the I/O, to the end of the block, where
\* locked_disk is dropped; an error returns at once and drops both
MutexIo(w) ==
  /\ pc[w] = "mx_io"
  /\ disk_lock' = NoWorker
  /\ IF MutexResult(w).res = "Ok"
     THEN /\ pc' = [pc EXCEPT ![w] = "mx_table"]
          /\ UNCHANGED <<disk, pool, pool_lock, held, loc, last>>
     ELSE /\ MutexReturn(w, MutexResult(w))
          /\ pool_lock' = NoWorker
  /\ UNCHANGED <<stored, snap, written, nops>>

\* lines 121-124, 142-145: the page table, and the return that drops
\* locked_pool
MutexUnlockPool(w) ==
  /\ pc[w] = "mx_table"
  /\ pool_lock' = NoWorker
  /\ MutexReturn(w, MutexResult(w))
  /\ UNCHANGED <<disk_lock, stored, snap, written, nops>>

MutexDrop == \E w \in Workers : \E i \in 1..MaxMutexCalls : RawDrop(w, i)

MutexStep(w) ==
  \/ MutexLockPool(w)
  \/ MutexLockDisk(w)
  \/ MutexIo(w)
  \/ MutexUnlockPool(w)
  \/ FlushIter(w)
  \/ FlushDone(w)

NextMutex == MutexCall \/ MutexDrop \/ MutexStep(1) \/ MutexStep(2)

SpecMutex == InitPool /\ [][NextMutex]_vars

\* C24: a worker is at, or past, self.disk.lock() only with the pool mutex
\* in its hands, no worker is at self.pool.lock() with the disk mutex in
\* its hands, and so no two workers wait for each other's mutex.
C24_PoolThenDisk ==
  /\ \A w \in Workers :
       /\ (pc[w] = "mx_disk" \/ disk_lock = w) => pool_lock = w
       /\ pc[w] = "mx_pool" => disk_lock # w
  /\ \A w \in Workers : \A v \in Workers :
       ~(/\ pc[w] = "mx_pool" /\ pool_lock = v
         /\ pc[v] = "mx_disk" /\ disk_lock = w)

\* C24: worker 1 holds both mutexes in fetch_page or create_page while
\* worker 2 is at self.pool.lock()
C24_Witness ==
  /\ pc[1] = "mx_io" /\ pool_lock = 1 /\ disk_lock = 1
  /\ pc[2] = "mx_pool"

\* ------------------------------------------------------------------------
\* btree/leaf.rs on its own, as the tests of leaf.rs drive it: one leaf over
\* a page_data of LeafLen bytes (loc[1].bytes), filled by put with values of
\* several lengths.  When put returns false the caller makes a second leaf
\* and calls split_put, as put_internal does (btree.rs lines 208-238);
\* snap[1] keeps page_data as it was before the call, last[1].bytes is the
\* page_data of new_leaf and loc[1].ret_key the key returned.

LeafLen == 70

MaxLeafKeys == 4

LeafKeys == 1..MaxLeafKeys

\* the lengths of the values put: none, a few bytes, Leaf::max_value_size
LeafValueLen(n) ==
  IF n = 1 THEN 0 ELSE IF n = 2 THEN 3 ELSE LeafMaxValueSize(Fill(LeafLen, 0))

LeafValues == 1..3

LeafValueOf(n) == SubSeq([i \in 1..LeafValueLen(n) |-> 16 * n + i], 1, LeafValueLen(n))

MaxLeafPuts == 5

InitLeaf ==
  /\ disk = DiskNew(<<>>)
  /\ pool = BufferPoolNew(PoolSize)
  /\ pool_lock = NoWorker
  /\ disk_lock = NoWorker
  /\ held = NoHandles
  /\ pc = Fill(NWorkers, "idle")
  /\ loc = [Fill(NWorkers, IdleLoc) EXCEPT ![1].bytes = LeafInitialize(Fill(LeafLen, 0))]
  /\ last = Fill(NWorkers, NoLast)
  /\ stored = Fill(NKeys, NoValue)
  /\ snap = Fill(NWorkers, <<>>)
  /\ written = Fill(MaxPages, NoWrite)
  /\ nops = [put |-> 0, get |-> 0, flush |-> 0, twice |-> 0]

\* the outcome of a call on the leaf
LeafReturn(op, k, v, res, found, bytes) ==
  last' = [last EXCEPT ![1] = [op |-> op, key |-> k, value |-> v, res |-> res,
                               found |-> found, bytes |-> bytes]]

\* leaf.put(key, value) returns true
LeafPutTrue ==
  \E k \in LeafKeys : \E v \in LeafValues :
    /\ pc[1] = "idle"
    /\ nops.put < MaxLeafPuts
    /\ LeafPutOk(loc[1].bytes, KeyOf(k), LeafValueOf(v))
    /\ nops' = [nops EXCEPT !.put = @ + 1]
    /\ snap' = [snap EXCEPT ![1] = loc[1].bytes]
    /\ loc' = [loc EXCEPT ![1].bytes = LeafPut(loc[1].bytes, KeyOf(k), LeafValueOf(v))]
    /\ LeafReturn("put", k, v, "Ok", TRUE, <<>>)
    /\ UNCHANGED <<disk, pool, pool_lock, disk_lock, held, pc, stored, written>>

\* leaf.put(key, value) returns false
LeafPutFalse ==
  \E k \in LeafKeys : \E v \in LeafValues :
    /\ pc[1] = "idle"
    /\ ~LeafPutOk(loc[1].bytes, KeyOf(k), LeafValueOf(v))
    /\ snap' = [snap EXCEPT ![1] = loc[1].bytes]
    /\ loc' = [loc EXCEPT ![1].bytes = LeafPut(loc[1].bytes, KeyOf(k), LeafValueOf(v))]
    /\ LeafReturn("put", k, v, "Ok", FALSE, <<>>)
    /\ pc' = [pc EXCEPT ![1] = "put_false"]
    /\ UNCHANGED <<disk, pool, pool_lock, disk_lock, held, nops, stored, written>>

\* and split_put follows, with the key and the value of that put
LeafSplit ==
  /\ pc[1] = "put_false"
  /\ \E sp \in {LeafSplitPut(loc[1].bytes,
                             LeafInitialize(Fill(LeafLen, 0)),
                             KeyOf(last[1].key), LeafValueOf(last[1].value))} :
       /\ snap' = [snap EXCEPT ![1] = loc[1].bytes]
       /\ loc' = [loc EXCEPT ![1].bytes = sp.self, ![1].ret_key = sp.key]
       /\ LeafReturn("split_put", last[1].key, last[1].value,
                     IF sp.panic THEN "Panic" ELSE "Ok", FALSE, sp.new_leaf)
  /\ pc' = [pc EXCEPT ![1] = "split"]
  /\ UNCHANGED <<disk, pool, pool_lock, disk_lock, held, nops, stored, written>>

NextLeaf == LeafPutTrue \/ LeafPutFalse \/ LeafSplit

SpecLeaf == InitLeaf /\ [][NextLeaf]_vars

\* the records with the key below (side < 0) or above (side > 0) the key k
RecordsBeside(recs, k, side) ==
  SelectSeq(recs, LAMBDA rec : KeyCmp(RecordKey(rec), KeyOf(k)) = side)

\* C14: after split_put(new_leaf, k, v) the records of the old leaf followed
\* by those of new_leaf are the records the leaf had, with (k, v) at its
\* place in the order and in place of an earlier record of k; the keys of
\* the old leaf are below those of new_leaf; the key returned is the first
\* key of new_leaf.  (A call in which an assert fails returns nothing.)
C14_SplitPut ==
  (pc[1] = "split" /\ last[1].op = "split_put" /\ last[1].res = "Ok")
    => /\ LeafRecords(loc[1].bytes) \o LeafRecords(last[1].bytes)
            = RecordsBeside(LeafRecords(snap[1]), last[1].key, 0 - 1)
                \o <<KeyOf(last[1].key) \o LeafValueOf(last[1].value)>>
                \o RecordsBeside(LeafRecords(snap[1]), last[1].key, 1)
       /\ \A i \in 0..(LeafNumRecords(loc[1].bytes) - 1) :
            \A j \in 0..(LeafNumRecords(last[1].bytes) - 1) :
              KeyCmp(LeafKey(loc[1].bytes, i), LeafKey(last[1].bytes, j)) < 0
       /\ LeafNumRecords(last[1].bytes) > 0
       /\ loc[1].ret_key = LeafKey(last[1].bytes, 0)

\* C14: a split that replaced the record of a key the leaf held and left
\* two or more records in each leaf
C14_Witness ==
  /\ pc[1] = "split"
  /\ last[1].res = "Ok"
  /\ RecordsBeside(LeafRecords(snap[1]), last[1].key, 0) # <<>>
  /\ LeafNumRecords(loc[1].bytes) >= 2
  /\ LeafNumRecords(last[1].bytes) >= 2

\* C21: when Leaf::put returns false, through the allocate of a new key or
\* the realloc of a stored one, the leaf is byte for byte what it was.
C21_FalseKeeps == pc[1] = "put_false" => loc[1].bytes = snap[1]

\* C21: a put that found its key, asked realloc for more room and got false
C21_Witness ==
  /\ pc[1] = "put_false"
  /\ LeafFind(snap[1], KeyOf(last[1].key)).ok
  /\ LeafNumRecords(snap[1]) >= 2

\* the leaves at hand: the one worked on and, after a split, the new one
LeavesMade ==
  {loc[1].bytes}
    \cup (IF pc[1] = "split" /\ last[1].res = "Ok" THEN {last[1].bytes} ELSE {})

\* the keys of the records ascend strictly
LeafAscending(d) ==
  \A i \in 1..(LeafNumRecords(d) - 1) : KeyCmp(LeafKey(d, i - 1), LeafKey(d, i)) < 0

\* C33: on a leaf whose keys ascend strictly, find(k) returns Ok(i) with
\* record(i).key = k when k is there, and else Err(p) with p the number of
\* records with a key below k; on an empty leaf Err(0).
C33_LeafFind ==
  \A d \in LeavesMade : \A k \in 0..(MaxLeafKeys + 1) :
    LeafAscending(d)
      => LET f == LeafFind(d, KeyOf(k))
             there == {i \in 0..(LeafNumRecords(d) - 1) : LeafKey(d, i) = KeyOf(k)}
             below == {i \in 0..(LeafNumRecords(d) - 1) :
                         KeyCmp(LeafKey(d, i), KeyOf(k)) < 0}
         IN IF there # {} THEN f.ok /\ f.index \in there
            ELSE ~f.ok /\ f.index = Cardinality(below)

\* C33: a leaf of three records or more with a gap between two of its keys
C33_Witness ==
  /\ LeafNumRecords(loc[1].bytes) >= 3
  /\ LeafAscending(loc[1].bytes)
  /\ \E k \in LeafKeys :
       /\ ~LeafFind(loc[1].bytes, KeyOf(k)).ok
       /\ LeafFind(loc[1].bytes, KeyOf(k)).index \in 1..(LeafNumRecords(loc[1].bytes) - 1)

\* C31: split_put, called after a put of a value no longer than
\* max_value_size returned false, ends with no assert failed, and leaves a
\* record or more in each of the two leaves.
C31_SplitProgress ==
  (pc[1] = "split" /\ last[1].op = "split_put")
    => /\ last[1].res = "Ok"
       /\ LeafNumRecords(loc[1].bytes) >= 1
       /\ LeafNumRecords(last[1].bytes) >= 1

\* ------------------------------------------------------------------------
\* btree/branch.rs on its own, as the tests of branch.rs drive it: a branch
\* over BranchLen bytes (loc[1].bytes), made by initialize, grown by insert
\* at find(key) + 1 as put_internal does (btree.rs lines 246-252), then
\* split into a second branch over a zeroed vector.  snap[1] keeps the
\* branch as it was before the split, last[1].bytes is the new branch and
\* loc[1].ret_key the key returned.

BranchLen == 100

MaxBranchKeys == 6

BranchKeys == 1..MaxBranchKeys

\* the test splits a branch of four pairs, put_internal a full one
MinSplitPairs == 4

InitBranch ==
  /\ disk = DiskNew(<<>>)
  /\ pool = BufferPoolNew(PoolSize)
  /\ pool_lock = NoWorker
  /\ disk_lock = NoWorker
  /\ held = NoHandles
  /\ pc = Fill(NWorkers, "idle")
  /\ \E k \in BranchKeys :
       loc = [Fill(NWorkers, IdleLoc) EXCEPT
                ![1].bytes = BrInitialize(Fill(BranchLen, 0), KeyOf(k), 1, 2)]
  /\ last = Fill(NWorkers, NoLast)
  /\ stored = Fill(NKeys, NoValue)
  /\ snap = Fill(NWorkers, <<>>)
  /\ written = Fill(MaxPages, NoWrite)
  /\ nops = [put |-> 0, get |-> 0, flush |-> 0, twice |-> 0]

\* the keys of pairs 1..num_pairs-1 (the key of pair 0 is not used)
BranchKeysOf(b) == {BrKey(b, i) : i \in 1..(BrNumPairs(b) - 1)}

\* the children of pairs 0..num_pairs-1, in order
BranchChildren(b) ==
  SubSeq([i \in 1..BrNumPairs(b) |-> BrChild(b, i - 1)], 1, BrNumPairs(b))

\* branch.insert(branch.find(key) + 1, key, child) with a new child page
BranchInsert ==
  \E k \in BranchKeys :
    /\ pc[1] = "idle"
    /\ KeyOf(k) \notin BranchKeysOf(loc[1].bytes)
    /\ BrNumPairs(loc[1].bytes) < BrMaxPairs(loc[1].bytes)
    /\ nops' = [nops EXCEPT !.put = @ + 1]
    /\ loc' = [loc EXCEPT ![1].bytes =
                 BrInsert(loc[1].bytes, BrFind(loc[1].bytes, KeyOf(k)) + 1, KeyOf(k),
                          nops.put + 3)]
    /\ last' = [last EXCEPT ![1] = [NoLast EXCEPT !.op = "insert", !.key = k, !.res = "Ok"]]
    /\ UNCHANGED <<disk, pool, pool_lock, disk_lock, held, pc, stored, snap, written>>

\* branch.split(&mut new_branch)
BranchSplit ==
  /\ pc[1] = "idle"
  /\ BrNumPairs(loc[1].bytes) >= MinSplitPairs
  /\ \E sp \in {BrSplit(loc[1].bytes, Fill(BranchLen, 0))} :
       /\ loc' = [loc EXCEPT ![1].bytes = sp.self, ![1].ret_key = sp.key]
       /\ last' = [last EXCEPT ![1] = [NoLast EXCEPT !.op = "split", !.res = "Ok",
                                                     !.bytes = sp.new_branch]]
  /\ snap' = [snap EXCEPT ![1] = loc[1].bytes]
  /\ pc' = [pc EXCEPT ![1] = "split"]
  /\ UNCHANGED <<disk, pool, pool_lock, disk_lock, held, nops, stored, written>>

NextBranch == BranchInsert \/ BranchSplit

SpecBranch == InitBranch /\ [][NextBranch]_vars

\* C15: after Branch::split the children of the left branch followed by
\* those of the right branch (pairs below num_pairs) are the children the
\* branch had, the key returned is the key of pairs[n / 2], and the child of
\* that pair is the child of pair 0 of the right branch.
C15_SplitKeepsChildren ==
  (pc[1] = "split" /\ last[1].op = "split")
    => /\ BranchChildren(loc[1].bytes) \o BranchChildren(last[1].bytes)
            = BranchChildren(snap[1])
       /\ loc[1].ret_key = BrKey(snap[1], BrNumPairs(snap[1]) \div 2)
       /\ BrChild(last[1].bytes, 0) = BrChild(snap[1], BrNumPairs(snap[1]) \div 2)

\* the index Branch::find is to return: the largest i >= 1 with
\* pairs[i].key <= key, or 0
FindIndex(b, key) ==
  LET below == {i \in 1..(BrNumPairs(b) - 1) : KeyCmp(BrKey(b, i), key) <= 0}
  IN IF below = {} THEN 0 ELSE CHOOSE i \in below : \A j \in below : j <= i

\* the branches at hand: the one worked on and, after a split, the new one
BranchesMade == {loc[1].bytes} \cup (IF pc[1] = "split" THEN {last[1].bytes} ELSE {})

\* C32: on every branch made by initialize, insert and split, find(key)
\* returns the largest i >= 1 with pairs[i].key <= key, or 0, an index below
\* num_pairs, and the pair it compares last is one below num_pairs.
C32_FindIndex ==
  \A b \in BranchesMade : \A k \in 0..(MaxBranchKeys + 1) :
    /\ ~BrFindPanics(b)
    /\ BrFindBase(b, KeyOf(k), 1, BrNumPairs(b) - 1) < BrNumPairs(b)
    /\ BrFind(b, KeyOf(k)) \in 0..(BrNumPairs(b) - 1)
    /\ BrFind(b, KeyOf(k)) = FindIndex(b, KeyOf(k))

\* ------------------------------------------------------------------------
\* executor.rs and main.rs: one connection sends requests one after the
\* other to a process started on a new, empty data file; the process may be
\* stopped and started again between two requests (DiskManager::open on the
\* same file, BufferPool::new(5)).  loc[1].req is the request being served
\* and req.log the requests answered so far with their responses.

MaxRequests == 4

TableIds == {1}

ItemKeys == {1, 2}

InitExec ==
  /\ disk = DiskNew(<<>>)
  /\ pool = BufferPoolNew(PoolSize)
  /\ pool_lock = NoWorker
  /\ disk_lock = NoWorker
  /\ held = NoHandles
  /\ pc = Fill(NWorkers, "idle")
  /\ loc = Fill(NWorkers, IdleLoc)
  /\ last = Fill(NWorkers, NoLast)
  /\ stored = Fill(NKeys, NoValue)
  /\ snap = Fill(NWorkers, <<>>)
  /\ written = Fill(MaxPages, <<>>)
  /\ nops = [put |-> 0, get |-> 0, flush |-> 0, twice |-> 0]

\* the connection may send its next request
ExecIdle ==
  /\ pc[1] = "idle"
  /\ loc[1].req.phase = "done"
  /\ Len(loc[1].req.log) < MaxRequests

Logged(req, resp, item) ==
  [req EXCEPT !.phase = "done",
              !.log = Append(@, [kind |-> req.kind, table_id |-> req.table_id,
                                 key |-> req.key, resp |-> resp, item |-> item])]

\* a tree operation of the request begins
ExecCall(op, tree, k, v, req) ==
  /\ pc' = [pc EXCEPT ![1] = IF op = "put" THEN "put_fetch_meta"
                              ELSE IF op = "get" THEN "get_fetch_meta"
                              ELSE "scan_fetch_meta"]
  /\ loc' = [loc EXCEPT ![1] = [IdleLoc EXCEPT !.op = op, !.key = k, !.value = v,
                                               !.btree_page_id = tree, !.req = req]]
  /\ last' = [last EXCEPT ![1] = NoLast]

\* the request is answered
ExecRespond(resp, item) ==
  /\ loc' = [loc EXCEPT ![1].req = Logged(loc[1].req, resp, item)]
  /\ UNCHANGED <<disk, pool, pool_lock, disk_lock, held, pc, last, stored, snap, written, nops>>

\* execute lines 35-41: what a failed tree operation becomes
ErrorOf(res) == IF res = "Deadlock" THEN "Deadlock" ELSE "Error"

\* create_table lines 111-114: Access::create, then catalog.put begins
CreateTable ==
  \E t \in TableIds : \E c \in {AccessCreate(pool, disk)} :
    /\ ExecIdle
    /\ disk.next_page_id + 2 <= MaxPages
    /\ pool' = c.pool
    /\ disk' = c.disk
    /\ IF c.res = "Ok"
       THEN ExecCall("put", TreePageId, t, PageIdValue(c.btree_page_id),
                     [loc[1].req EXCEPT !.kind = "CreateTable", !.table_id = t,
                                        !.key = 0, !.phase = "put"])
       ELSE /\ loc' = [loc EXCEPT ![1].req =
                         Logged([loc[1].req EXCEPT !.kind = "CreateTable",
                                                   !.table_id = t, !.key = 0],
                                "Error", <<>>)]
            /\ UNCHANGED <<pc, last>>
    /\ UNCHANGED <<pool_lock, disk_lock, held, stored, snap, written, nops>>

\* put_item line 67, get_item line 53: lookup_table begins with catalog.get
LookupTable(kind) ==
  \E t \in TableIds : \E k \in ItemKeys :
    /\ ExecIdle
    /\ ExecCall("get", TreePageId, t, NoValue,
                [loc[1].req EXCEPT !.kind = kind, !.table_id = t, !.key = k,
                                   !.phase = "lookup"])
    /\ UNCHANGED <<disk, pool, pool_lock, disk_lock, held, stored, snap, written, nops>>

PutItem == LookupTable("PutItem")

GetItem == LookupTable("GetItem")

\* the limits a ScanItem request is sent with
MaxLimit == 2

\* scan_item line 78: lookup_table begins; start is None, backward chooses
\* iter_rev, and count is 0 (line 82)
ScanItem ==
  \E t \in TableIds : \E limit \in 0..MaxLimit : \E op \in ScanOps :
    /\ ExecIdle
    /\ ExecCall("get", TreePageId, t, NoValue,
                [loc[1].req EXCEPT !.kind = "ScanItem", !.table_id = t, !.key = 0,
                                   !.phase = "lookup", !.op = op, !.limit = limit,
                                   !.count = 0])
    /\ UNCHANGED <<disk, pool, pool_lock, disk_lock, held, stored, snap, written, nops>>

\* delete_item lines 73-75 is todo!(): the panic unwinds the thread that
\* main.rs spawned for the connection, before execute maps any error and
\* before a response is written; the connection is served no more.
DeleteItem ==
  \E t \in TableIds : \E k \in ItemKeys :
    /\ ExecIdle
    /\ pc' = [pc EXCEPT ![1] = "panicked"]
    /\ loc' = [loc EXCEPT ![1].req =
                 Logged([loc[1].req EXCEPT !.kind = "DeleteItem", !.table_id = t,
                                           !.key = k],
                        "Panic", <<>>)]
    /\ UNCHANGED <<disk, pool, pool_lock, disk_lock, held, last, stored, snap, written, nops>>

\* lookup_table lines 47-50 returns, and the request goes on to the table's
\* tree (lines 54-56 and 68-69)
Looked ==
  /\ pc[1] = "idle"
  /\ loc[1].req.phase = "lookup"
  /\ IF last[1].res # "Ok" THEN ExecRespond(ErrorOf(last[1].res), <<>>)
     ELSE IF ~last[1].found \/ Len(last[1].bytes) # 8 THEN ExecRespond("Error", <<>>)
     ELSE /\ IF loc[1].req.kind = "PutItem"
             THEN ExecCall("put", PageIdOf(last[1].bytes), loc[1].req.key, ItemX,
                           [loc[1].req EXCEPT !.phase = "put"])
             ELSE IF loc[1].req.kind = "ScanItem"
             THEN ExecCall(loc[1].req.op, PageIdOf(last[1].bytes), NoKey, NoValue,
                           [loc[1].req EXCEPT !.phase = "scan",
                                              !.tree = PageIdOf(last[1].bytes)])
             ELSE ExecCall("get", PageIdOf(last[1].bytes), loc[1].req.key, NoValue,
                           [loc[1].req EXCEPT !.phase = "get"])
          /\ UNCHANGED <<disk, pool, pool_lock, disk_lock, held, stored, snap, written, nops>>

\* put_item lines 69-70 and create_table lines 114-115: the put returned
PutAnswered ==
  /\ pc[1] = "idle"
  /\ loc[1].req.phase = "put"
  /\ ExecRespond(IF last[1].res = "Ok" THEN "Ok" ELSE ErrorOf(last[1].res), <<>>)

\* get_item lines 56-63: the get returned
GetAnswered ==
  /\ pc[1] = "idle"
  /\ loc[1].req.phase = "get"
  /\ IF last[1].res # "Ok" THEN ExecRespond(ErrorOf(last[1].res), <<>>)
     ELSE IF last[1].found THEN ExecRespond("Item", last[1].bytes)
     ELSE ExecRespond("None", <<>>)

\* scan_item lines 85-95 and 98-108: one turn of the while loop.  next()
\* hands out a record, the item is pushed and counted, and only then is
\* the count compared with the limit; break drops the iterator.
ScanItemPush ==
  /\ pc[1] = "scan_next"
  /\ IsLeafPage(PageOf(pool, Top(held[1]).frame))
  /\ \E d \in {NodeBody(PageOf(pool, Top(held[1]).frame))} :
     \E req \in {[loc[1].req EXCEPT !.count = @ + 1]} :
       /\ IF loc[1].op = "iter" THEN loc[1].index < LeafNumRecords(d)
          ELSE loc[1].index >= 0
       /\ IF req.count >= req.limit
          THEN /\ held' = [held EXCEPT ![1] = <<>>]
               /\ pc' = [pc EXCEPT ![1] = "idle"]
               /\ loc' = [loc EXCEPT ![1] = [IdleLoc EXCEPT !.req = req]]
               /\ last' = [last EXCEPT ![1] =
                            [op |-> loc[1].op, key |-> loc[1].key,
                             value |-> loc[1].value, res |-> "Ok", found |-> TRUE,
                             bytes |-> loc[1].bytes \o LeafRecord(d, loc[1].index)]]
               /\ UNCHANGED stored
          ELSE Goto(1, "scan_next", held[1],
                    [loc[1] EXCEPT !.bytes = @ \o LeafRecord(d, loc[1].index),
                                   !.index = IF loc[1].op = "iter" THEN @ + 1 ELSE @ - 1,
                                   !.req = req])
  /\ UNCHANGED <<disk, pool, pool_lock, disk_lock, nops, snap, written>>

\* scan_item line 109, or the error of iter, iter_rev or next
ScanAnswered ==
  /\ pc[1] = "idle"
  /\ loc[1].req.phase = "scan"
  /\ IF last[1].res # "Ok" THEN ExecRespond(ErrorOf(last[1].res), <<>>)
     ELSE ExecRespond("Items", last[1].bytes)

\* flush lines 118-121: the whole request is BufferPoolManager::flush
FlushRequest ==
  /\ ExecIdle
  /\ nops.flush < MaxFlushes
  /\ pool_lock = NoWorker
  /\ nops' = [nops EXCEPT !.flush = @ + 1]
  /\ pool_lock' = 1
  /\ disk_lock' = 1
  /\ pc' = [pc EXCEPT ![1] = "flush_iter"]
  /\ loc' = [loc EXCEPT ![1] =
               [IdleLoc EXCEPT !.op = "flush", !.todo = PagesIn(pool.page_table, 1),
                               !.req = [loc[1].req EXCEPT !.kind = "Flush", !.table_id = 0,
                                                          !.key = 0, !.phase = "flush"]]]
  /\ last' = [last EXCEPT ![1] = NoLast]
  /\ UNCHANGED <<disk, pool, held, stored, snap, written>>

\* buffer.rs line 155 or 158: write_page_data or the fsync fails, and ?
\* returns the io::Error; both mutexes are released
FlushFails ==
  /\ pc[1] = "flush_iter"
  /\ pool_lock' = NoWorker
  /\ disk_lock' = NoWorker
  /\ Return(1, "Io", FALSE, <<>>)
  /\ UNCHANGED <<disk, pool, nops, written>>

\* flush lines 119-120: the Result of bufmgr.flush() is dropped and the
\* response is Ok(FlushOutput)
FlushAnswered ==
  /\ pc[1] = "idle"
  /\ loc[1].req.phase = "flush"
  /\ ExecRespond("Ok", <<>>)

\* the process ends and main starts again on the same file (main.rs lines
\* 28-30): the buffer pool and what it held are gone
Restart ==
  /\ ExecIdle
  /\ disk' = DiskNew(disk.data_file)
  /\ pool' = BufferPoolNew(PoolSize)
  /\ loc' = [loc EXCEPT ![1].req = Logged([loc[1].req EXCEPT !.kind = "Restart",
                                                             !.table_id = 0, !.key = 0],
                                          "Ok", <<>>)]
  /\ UNCHANGED <<pool_lock, disk_lock, held, pc, last, stored, snap, written, nops>>

\* The root leaf holds the records of MaxRequests requests, so a put of
\* this specification ends in the leaf and never comes to a split.
ExecPutStep ==
  \/ PutFetchMeta(1)
  \/ PutLockMeta(1)
  \/ PutFetchNode(1)
  \/ PutLockNode(1)
  \/ PutReturn(1)

\* A table of this specification is one leaf, so that a scan never goes on
\* to a neighbour.
ExecScanStep ==
  \/ ScanFetchMeta(1)
  \/ ScanLockMeta(1)
  \/ ScanFetchNode(1)
  \/ ScanLockNode(1)
  \/ ScanNode(1)
  \/ ScanLeave(1)

NextExec ==
  \/ CreateTable \/ PutItem \/ GetItem \/ ScanItem \/ DeleteItem
  \/ Looked \/ PutAnswered \/ GetAnswered \/ ScanItemPush \/ ScanAnswered
  \/ FlushRequest \/ FlushFails \/ FlushAnswered \/ Restart
  \/ ExecPutStep \/ GetStep(1) \/ ExecScanStep \/ FlushStep(1)

SpecExec == InitExec /\ [][NextExec]_vars

\* the requests answered so far, without the items
Answers ==
  [i \in 1..Len(loc[1].req.log) |->
     <<loc[1].req.log[i].kind, loc[1].req.log[i].table_id, loc[1].req.log[i].key,
       loc[1].req.log[i].resp>>]

\* C17: on a new data file, after CreateTable(T1) and PutItem(T1, {k, "x"})
\* have returned success and the process was started again, with no other
\* request in between, GetItem(T1, k) returns the item with the value "x".
C17_CatalogRoundTrip ==
  \A t \in TableIds : \A k \in ItemKeys : \A r \in {loc[1].req.log} :
    (/\ Len(r) = 4
     /\ SubSeq(Answers, 1, 3) = << <<"CreateTable", t, 0, "Ok">>, <<"PutItem", t, k, "Ok">>,
                                   <<"Restart", 0, 0, "Ok">> >>
     /\ r[4].kind = "GetItem" /\ r[4].table_id = t /\ r[4].key = k)
      => r[4].resp = "Item" /\ r[4].item = ValueOf(ItemX)

\* C26: a DeleteItem request is answered with an Error response, and the
\* worker of the connection is still there to execute further requests.
C26_DeleteItemError ==
  \A i \in 1..Len(loc[1].req.log) :
    loc[1].req.log[i].kind = "DeleteItem"
      => loc[1].req.log[i].resp = "Error" /\ pc[1] # "panicked"

\* the records a scan of the table from None hands out when it is driven
\* to its end, in the order of the scan (the table is one leaf)
ScanWouldYield(tree, op) ==
  LET meta == Logical(tree)
      recs == LeafRecords(NodeBody(Logical(RootPageId(meta))))
  IN IF op = "iter" THEN recs
     ELSE [i \in 1..Len(recs) |-> recs[Len(recs) + 1 - i]]

RECURSIVE Flat(_)
Flat(recs) == IF recs = <<>> THEN <<>> ELSE Head(recs) \o Flat(Tail(recs))

\* C27: a ScanItem request with limit L, forward or backward, is answered
\* with the first min(L, n) of the n records the scan would yield, in scan
\* order; L = 0 is answered with no item.
C27_ScanLimit ==
  (pc[1] = "idle" /\ loc[1].req.phase = "scan" /\ last[1].res = "Ok")
    => LET recs == ScanWouldYield(loc[1].req.tree, loc[1].req.op)
           n == IF loc[1].req.limit < Len(recs) THEN loc[1].req.limit ELSE Len(recs)
       IN /\ loc[1].req.count = n
          /\ last[1].bytes = Flat(SubSeq(recs, 1, n))

\* C28: when the operation of the buffer pool or of the tree that a request
\* ran has returned an error, the response of the request is an Error; a
\* Flush whose BufferPoolManager::flush failed is not answered with success.
C28_ErrorsReachClient ==
  [][(/\ pc[1] = "idle"
      /\ loc[1].req.phase # "done"
      /\ loc'[1].req.phase = "done"
      /\ last[1].res # "Ok")
       => LET log == loc'[1].req.log
          IN log[Len(log)].resp \in {"Error", "Deadlock"}]_vars

\* ------------------------------------------------------------------------
\* slotted.rs on its own, as tests::test drives it: one Slotted over
\* SlottedLen bytes (loc[1].bytes), initialized, then any of allocate,
\* realloc, delete, reverse and initialize with indices in range.  After an
\* allocate or a realloc that returns true the caller fills the slot, as the
\* insert closure of the test and Leaf::put do; the bytes written are the
\* number of the call.  snap[1] keeps the bytes as they were before the call.
\* A call in which a copy_within panics ends the run.

SlottedLen == 20

MaxSlotLen == 3

SlotLens == 0..MaxSlotLen

MaxSlottedCalls == 4

InitSlotted ==
  /\ disk = DiskNew(<<>>)
  /\ pool = BufferPoolNew(PoolSize)
  /\ pool_lock = NoWorker
  /\ disk_lock = NoWorker
  /\ held = NoHandles
  /\ pc = Fill(NWorkers, "idle")
  /\ loc = [Fill(NWorkers, IdleLoc) EXCEPT ![1].bytes = SlInitialize(Fill(SlottedLen, 0))]
  /\ last = Fill(NWorkers, NoLast)
  /\ stored = Fill(NKeys, NoValue)
  /\ snap = Fill(NWorkers, <<>>)
  /\ written = Fill(MaxPages, NoWrite)
  /\ nops = [put |-> 0, get |-> 0, flush |-> 0, twice |-> 0]

\* the copy_within of allocate (slotted.rs line 161)
SlAllocatePanics(s, index, element_len) ==
  /\ SlAllocateOk(s, index, element_len)
  /\ CopyWithinPanics(s, SlPointerAt(index), SlPointerAt(SlNumSlots(s)),
                      SlPointerAt(index + 1))

\* the copy_within of realloc (slotted.rs lines 198-200)
SlReallocPanics(s, index, new_element_len) ==
  LET org == SlPointer(s, index)
      diff == new_element_len - org.len
  IN /\ diff # 0
     /\ SlReallocOk(s, index, new_element_len)
     /\ CopyWithinPanics(s, SlottedHeaderSize + SlFreeSpaceOffset(s),
                         SlottedHeaderSize + org.offset,
                         SlottedHeaderSize + SlFreeSpaceOffset(s) - diff)

\* the copy_within of realloc and that of delete (slotted.rs line 176)
SlDeletePanics(s, index) ==
  \/ SlReallocPanics(s, index, 0)
  \/ CopyWithinPanics(s, SlPointerAt(index), SlPointerAt(SlNumSlots(s)),
                      SlPointerAt(index + 1))

\* the outcome of a call on the Slotted: "Ok" for true or (), "false", "Panic"
SlottedReturn(op, index, len, res, bytes) ==
  /\ pc[1] = "idle"
  /\ nops.put < MaxSlottedCalls
  /\ nops' = [nops EXCEPT !.put = @ + 1]
  /\ snap' = [snap EXCEPT ![1] = loc[1].bytes]
  /\ loc' = [loc EXCEPT ![1].bytes = IF res = "Ok" THEN bytes ELSE loc[1].bytes]
  /\ last' = [last EXCEPT ![1] = [op |-> op, key |-> index, value |-> len, res |-> res,
                                  found |-> res = "Ok", bytes |-> <<>>]]
  /\ pc' = [pc EXCEPT ![1] = IF res = "Panic" THEN "panicked" ELSE "idle"]
  /\ UNCHANGED <<disk, pool, pool_lock, disk_lock, held, stored, written>>

SlottedInitialize ==
  SlottedReturn("initialize", 0, 0, "Ok", SlInitialize(loc[1].bytes))

SlottedAllocate ==
  \E index \in 0..SlNumSlots(loc[1].bytes) : \E n \in SlotLens :
    SlottedReturn("allocate", index, n,
                  IF ~SlAllocateOk(loc[1].bytes, index, n) THEN "false"
                  ELSE IF SlAllocatePanics(loc[1].bytes, index, n) THEN "Panic"
                  ELSE "Ok",
                  SlSetRecord(SlAllocate(loc[1].bytes, index, n), index,
                              Fill(n, nops.put + 1)))

SlottedRealloc ==
  \E index \in 0..(SlNumSlots(loc[1].bytes) - 1) : \E n \in SlotLens :
    SlottedReturn("realloc", index, n,
                  IF ~SlReallocOk(loc[1].bytes, index, n) THEN "false"
                  ELSE IF SlReallocPanics(loc[1].bytes, index, n) THEN "Panic"
                  ELSE "Ok",
                  SlSetRecord(SlRealloc(loc[1].bytes, index, n), index,
                              Fill(n, nops.put + 1)))

SlottedDelete ==
  \E index \in 0..(SlNumSlots(loc[1].bytes) - 1) :
    SlottedReturn("delete", index, 0,
                  IF SlDeletePanics(loc[1].bytes, index) THEN "Panic" ELSE "Ok",
                  SlDelete(loc[1].bytes, index))

SlottedReverse ==
  SlottedReturn("reverse", 0, 0, "Ok", SlReverse(loc[1].bytes))

NextSlotted ==
  \/ SlottedInitialize
  \/ SlottedAllocate
  \/ SlottedRealloc
  \/ SlottedDelete
  \/ SlottedReverse

SpecSlotted == InitSlotted /\ [][NextSlotted]_vars

\* the payload offsets of the bytes of slot `index`
SlotRange(s, index) ==
  {b \in 0..(SlPayloadLen(s) + MaxSlotLen) :
     /\ SlPointer(s, index).offset <= b
     /\ b < SlPointer(s, index).offset + SlPointer(s, index).len}

\* C19: after every call the pointers end at or before free_space_offset,
\* every slot lies in [free_space_offset, capacity), and no byte belongs to
\* two slots.
C19_WellFormed ==
  LET s == loc[1].bytes
      slots == 0..(SlNumSlots(s) - 1)
  IN /\ SlFreeSpaceOffset(s) >= SlNumSlots(s) * PointerSize
     /\ \A i \in slots :
          /\ SlFreeSpaceOffset(s) <= SlPointer(s, i).offset
          /\ SlPointer(s, i).offset + SlPointer(s, i).len <= SlPayloadLen(s)
     /\ \A i \in slots : \A j \in slots :
          i # j => SlotRange(s, i) \cap SlotRange(s, j) = {}

\* where the slot at `i` is after the call last[1]
SlotAfter(call, i) ==
  IF call.op = "allocate" /\ i >= call.key THEN i + 1 ELSE i

\* C20: after allocate(i, n) returns true slot i has n bytes, and an
\* allocate or a realloc that returns true leaves every other slot with the
\* length and the bytes it had.
C20_SlotStable ==
  [][(/\ last'[1].op \in {"allocate", "realloc"}
      /\ last'[1].res = "Ok"
      /\ nops'.put = nops.put + 1)
       => /\ last'[1].op = "allocate"
               => SlPointer(loc'[1].bytes, last'[1].key).len = last'[1].value
          /\ \A i \in 0..(SlNumSlots(loc[1].bytes) - 1) :
               (last'[1].op = "realloc" => i # last'[1].key)
                 => /\ SlPointer(loc'[1].bytes, SlotAfter(last'[1], i)).len
                         = SlPointer(loc[1].bytes, i).len
                    /\ SlRecord(loc'[1].bytes, SlotAfter(last'[1], i))
                         = SlRecord(loc[1].bytes, i)]_vars

\* C22: delete(index) takes one from num_slots, leaves the slots before
\* index as they were and moves each slot after index one place down with
\* its bytes.
C22_DeleteRemoves ==
  [][(/\ last'[1].op = "delete"
      /\ last'[1].res = "Ok"
      /\ nops'.put = nops.put + 1)
       => /\ SlNumSlots(loc'[1].bytes) = SlNumSlots(loc[1].bytes) - 1
          /\ \A j \in 0..(SlNumSlots(loc[1].bytes) - 1) :
               /\ j < last'[1].key => SlRecord(loc'[1].bytes, j) = SlRecord(loc[1].bytes, j)
               /\ j > last'[1].key => SlRecord(loc'[1].bytes, j - 1) = SlRecord(loc[1].bytes, j)]_vars

\* get(key) on the catalog tree, read from the pages as they are
CatalogGet(k) ==
  LET pages == LogicalPages(pool, disk)
  IN GetIn(pages, RootPageId(PageIn(pages, TreePageId)), KeyOf(k), MaxDepth)

\* C39: on a new data file, when CreateTable(T) has returned success as the
\* first request, the catalog has for T a tree header page other than
\* page 0; and when PutItem(T, k) has then returned success, the catalog has
\* no entry under k.
C39_TableApartFromCatalog ==
  \A t \in TableIds : \A r \in {loc[1].req.log} :
    (/\ pc[1] = "idle" /\ loc[1].req.phase = "done"
     /\ Len(r) >= 1
     /\ Answers[1] = <<"CreateTable", t, 0, "Ok">>)
      => /\ Len(r) = 1 =>
              /\ CatalogGet(t).found
              /\ PageIdOf(CatalogGet(t).value) # TreePageId
         /\ \A k \in ItemKeys \ {t} :
              (Len(r) = 2 /\ Answers[2] = <<"PutItem", t, k, "Ok">>)
                => ~CatalogGet(k).found

=============================================================================
